---------------------------- MODULE Spec2Model ----------------------------
(***************************************************************************)
(* Model of the report extraction and aggregation pipeline of              *)
(* walton_production: the filename metadata parser, the cell normalizers,  *)
(* the layout-driven row extractors and the folder-level aggregators of    *)
(* aggregate_daily_data.py and aggregate_individual_data_verified.py, and  *)
(* the two older aggregators, aggregate_individual_data.py and             *)
(* aggregate_weekly_data.py.                                               *)
(*                                                                         *)
(* Text is modelled as a sequence of one-character strings, so that        *)
(* searching, trimming, case folding, parsing and formatting are computed  *)
(* character by character.  Numbers are integers; the older aggregators,   *)
(* which let NaN and infinities through, have floats of their own.         *)
(***************************************************************************)
EXTENDS Integers, Sequences, FiniteSets, TLC

VARIABLES
    pipeline,          \* which entry point runs: "daily", "verified", "individual",
                       \* "weekly", or "parser" and "cell" for the functions alone
    platform,          \* the C library under the interpreter: "glibc" or "other"
    folder,            \* the files of the folder: a set of [name, book], book the
                       \* key of the file's content in Workbooks
    config,            \* [hourly_rate, overhead_multiplier, include_shift]
    pc,                \* position of the running function
    file_paths,        \* the sorted list of candidate files
    idx,               \* index in file_paths of the next file of the loop
    daily_dataframes,  \* aggregate_daily_folder: list of per-file daily frames
    notes_dataframes,  \* aggregate_daily_folder: list of per-file notes frames
    dataframes,        \* aggregate_folder (verified): list of per-file frames
    aggregated_daily,  \* aggregated_daily_data.xlsx: [written, columns, rows]
    aggregated_notes,  \* aggregated_notes.xlsx: [written, columns, rows]
    aggregated_data,   \* aggregated_master_data.xlsx: [written, columns, rows]
    log,               \* the records given to the logger, in order
    outcomes,          \* per attempted file, the branch of the try statement taken
    file_name,         \* parser runs: the file name given to the parser
    parsed,            \* parser runs: what the parser returned or raised
    opened,            \* the names of the files whose workbook, opened by
                       \* pd.ExcelFile, has not been finalized (the code closes
                       \* none)
    master_data        \* aggregate_weekly_data: master_file.csv, [written, rows]

vars == <<pipeline, platform, folder, config, pc, file_paths, idx, daily_dataframes,
          notes_dataframes, dataframes, aggregated_daily, aggregated_notes,
          aggregated_data, log, outcomes, file_name, parsed, opened, master_data>>

---------------------------------------------------------------------------
(* Characters and text                                                     *)

\* A string literal as the sequence of its characters.
Chars(s) == [i \in 1..Len(s) |-> SubSeq(s, i, i)]

Range(f) == {f[i] : i \in DOMAIN f}

MinOf(S) == CHOOSE x \in S : \A y \in S : x <= y

MaxOf(S) == CHOOSE x \in S : \A y \in S : y <= x

\* The characters of the model in code point order (str comparison, sorted()).
CodePoints == Chars(" $()-./0123456789:ABCDEFGHIJKLMNOPQRSTUVWXYZ_abcdefghijklmnopqrstuvwxyz~")

Ord == [c \in Range(CodePoints) |-> CHOOSE i \in DOMAIN CodePoints : CodePoints[i] = c]

DigitChars == Chars("0123456789")

UpperChars == Chars("ABCDEFGHIJKLMNOPQRSTUVWXYZ")

LowerChars == Chars("abcdefghijklmnopqrstuvwxyz")

DigitSet == Range(DigitChars)

NonZeroDigitSet == DigitSet \ {"0"}

IsDigit(c) == c \in DigitSet

DigitVal == [c \in Range(DigitChars) |-> (CHOOSE i \in 1..10 : DigitChars[i] = c) - 1]

ToLowerChar == [c \in Range(CodePoints) |->
                  IF \E i \in 1..26 : UpperChars[i] = c
                  THEN LowerChars[CHOOSE i \in 1..26 : UpperChars[i] = c]
                  ELSE c]

ToUpperChar == [c \in Range(CodePoints) |->
                  IF \E i \in 1..26 : LowerChars[i] = c
                  THEN UpperChars[CHOOSE i \in 1..26 : LowerChars[i] = c]
                  ELSE c]

\* str.lower() and str.upper()
StrLower(s) == [i \in 1..Len(s) |-> ToLowerChar[s[i]]]

StrUpper(s) == [i \in 1..Len(s) |-> ToUpperChar[s[i]]]

\* s[p:p+len(t)] == t
MatchesAt(s, t, p) ==
    /\ p >= 1
    /\ p + Len(t) - 1 <= Len(s)
    /\ \A i \in 1..Len(t) : s[p + i - 1] = t[i]

\* the Python expression `t in s`
StrIn(t, s) == \E p \in 1..(Len(s) + 1) : MatchesAt(s, t, p)

\* str.strip(): leading and trailing whitespace removed
StrStrip(s) ==
    LET Kept(keep) == IF keep = {} THEN <<>> ELSE SubSeq(s, MinOf(keep), MaxOf(keep))
    IN  Kept({i \in 1..Len(s) : s[i] # " "})

\* a < b for two str values: code point order, a proper prefix first
StrLess(a, b) ==
    \E k \in 1..(Len(a) + 1) :
        /\ k <= Len(b)
        /\ \A j \in 1..(k - 1) : a[j] = b[j]
        /\ \/ k = Len(a) + 1
           \/ Ord[a[k]] < Ord[b[k]]

\* int(s) of a string of digits, surrounding blanks ignored
RECURSIVE DigitsToNat(_)
DigitsToNat(s) ==
    IF s = <<>> THEN 0
    ELSE IF s[Len(s)] = " " THEN DigitsToNat(SubSeq(s, 1, Len(s) - 1))
    ELSE IF s[1] = " " THEN DigitsToNat(Tail(s))
    ELSE 10 * DigitsToNat(SubSeq(s, 1, Len(s) - 1)) + DigitVal[s[Len(s)]]

\* n as a decimal string zero-padded to w digits
RECURSIVE PadNat(_, _)
PadNat(n, w) ==
    IF w = 0 /\ n = 0 THEN <<>>
    ELSE Append(PadNat(n \div 10, IF w = 0 THEN 0 ELSE w - 1), DigitChars[(n % 10) + 1])

---------------------------------------------------------------------------
(* datetime.strptime and strftime                                          *)

IsLeap(y) == (y % 4 = 0 /\ y % 100 # 0) \/ y % 400 = 0

DaysInMonth(y, m) ==
    IF m \in {4, 6, 9, 11} THEN 30
    ELSE IF m = 2 THEN (IF IsLeap(y) THEN 29 ELSE 28)
    ELSE 31

\* The lengths a format directive can take at position p of s, in the order
\* of the alternatives of the regular expression _strptime compiles it to:
\*   %m (1[0-2]|0[1-9]|[1-9])    %d (3[01]|[12]\d|0[1-9]|[1-9]| [1-9])
\*   %y (\d\d)                   %Y (\d\d\d\d)
DirectiveLens(dir, s, p) ==
    LET c1 == IF p <= Len(s) THEN s[p] ELSE "$"
        c2 == IF p + 1 <= Len(s) THEN s[p + 1] ELSE "$"
    IN  CASE dir = "m" ->
               (IF \/ (c1 = "1" /\ c2 \in {"0", "1", "2"})
                   \/ (c1 = "0" /\ c2 \in NonZeroDigitSet)
                THEN <<2>> ELSE <<>>)
               \o (IF c1 \in NonZeroDigitSet THEN <<1>> ELSE <<>>)
          [] dir = "d" ->
               (IF \/ (c1 = "3" /\ c2 \in {"0", "1"})
                   \/ (c1 \in {"1", "2"} /\ IsDigit(c2))
                   \/ (c1 = "0" /\ c2 \in NonZeroDigitSet)
                THEN <<2>> ELSE <<>>)
               \o (IF c1 \in NonZeroDigitSet THEN <<1>> ELSE <<>>)
               \o (IF c1 = " " /\ c2 \in NonZeroDigitSet THEN <<2>> ELSE <<>>)
          [] dir = "y" ->
               IF IsDigit(c1) /\ IsDigit(c2) THEN <<2>> ELSE <<>>
          [] dir = "Y" ->
               IF p + 3 <= Len(s) /\ \A i \in 0..3 : IsDigit(s[p + i])
               THEN <<4>> ELSE <<>>

StrpFail == [ok |-> FALSE, end |-> 0, m |-> 0, d |-> 0, y |-> 0, Y |-> 0]

\* re.match of the format's regular expression on s from position p, the
\* format read from its k-th character: a backtracking match, first
\* alternative first.  The fields are returned as numbers (0: not in format).
RECURSIVE StrpMatch(_, _, _, _), StrpAlternatives(_, _, _, _, _, _)
StrpMatch(s, p, fmt, k) ==
    IF k > Len(fmt)
    THEN [ok |-> TRUE, end |-> p, m |-> 0, d |-> 0, y |-> 0, Y |-> 0]
    ELSE IF fmt[k] # "%"
    THEN IF p <= Len(s) /\ s[p] = fmt[k] THEN StrpMatch(s, p + 1, fmt, k + 1) ELSE StrpFail
    ELSE StrpAlternatives(s, p, fmt, k, DirectiveLens(fmt[k + 1], s, p), 1)

\* the i-th alternative of the directive at fmt[k], then the later ones
StrpAlternatives(s, p, fmt, k, lens, i) ==
    IF i > Len(lens) THEN StrpFail
    ELSE LET Tried(try) ==
                 IF try.ok
                 THEN [try EXCEPT ![fmt[k + 1]] =
                                     DigitsToNat(SubSeq(s, p, p + lens[i] - 1))]
                 ELSE StrpAlternatives(s, p, fmt, k, lens, i + 1)
         IN  Tried(StrpMatch(s, p + lens[i], fmt, k + 2))

\* datetime.strptime(s, fmt): [ok, y, m, d]; not ok stands for ValueError
\* (no match, unconverted data remains, or no such day in the calendar).
strptime(s, fmt) ==
    LET Year(found) ==
            IF \E i \in 1..Len(fmt) : fmt[i] = "Y" THEN found.Y
            ELSE IF found.y <= 68 THEN 2000 + found.y ELSE 1900 + found.y
        Dated(found, year) ==
            IF ~found.ok \/ found.end # Len(s) + 1
            THEN [ok |-> FALSE, y |-> 0, m |-> 0, d |-> 0]
            ELSE IF year < 1 \/ found.d > DaysInMonth(year, found.m)
            THEN [ok |-> FALSE, y |-> 0, m |-> 0, d |-> 0]
            ELSE [ok |-> TRUE, y |-> year, m |-> found.m, d |-> found.d]
        Found(found) == Dated(found, Year(found))
    IN  Found(StrpMatch(s, 1, fmt, 1))

\* date.isoformat(), and str() of a Timestamp before its time of day
isoformat(date) ==
    PadNat(date.y, 4) \o <<"-">> \o PadNat(date.m, 2) \o <<"-">> \o PadNat(date.d, 2)

\* The platforms of the model.  date.strftime hands the format to the C
\* library's strftime: glibc writes %Y without leading zeros, the others
\* pad it to four digits.
Platforms == {"glibc", "other"}

\* date.strftime("%Y-%m-%d") on the C library libc
strftime_Ymd(date, libc) ==
    PadNat(date.y, IF libc = "glibc" THEN 0 ELSE 4)
        \o <<"-">> \o PadNat(date.m, 2) \o <<"-">> \o PadNat(date.d, 2)

---------------------------------------------------------------------------
(* The filename metadata parser                                            *)

\* The pattern of both parsers,
\*   (\d{1,2}-\d{1,2}-\d{2,4}) to (\d{1,2}-\d{1,2}-\d{2,4})
\* as its items: a run of lo..hi digits, or one literal character.
DateRangePattern ==
    LET D(lo, hi) == [digits |-> TRUE, lo |-> lo, hi |-> hi, ch |-> "$"]
        L(c)      == [digits |-> FALSE, lo |-> 1, hi |-> 1, ch |-> c]
        date      == <<D(1, 2), L("-"), D(1, 2), L("-"), D(2, 4)>>
    IN  date \o <<L(" "), L("t"), L("o"), L(" ")>> \o date

\* the position in DateRangePattern of the last item of group 1, and of the
\* first item of group 2
Group1Last == 5

Group2First == 10

\* Backtracking match of the pattern's items k.. at position p of s: the
\* sequence of the positions after each item, or <<>> when there is no match.
\* A digit run is greedy: the longest run is tried first.
RECURSIVE ReMatch(_, _, _), ReDigitRun(_, _, _, _)
ReMatch(s, p, k) ==
    IF k > Len(DateRangePattern) THEN <<p>>
    ELSE IF DateRangePattern[k].digits THEN ReDigitRun(s, p, k, DateRangePattern[k].hi)
    ELSE IF p <= Len(s) /\ s[p] = DateRangePattern[k].ch
    THEN LET Rest(r) == IF r = <<>> THEN <<>> ELSE <<p + 1>> \o r
         IN  Rest(ReMatch(s, p + 1, k + 1))
    ELSE <<>>

\* item k as a run of n digits, then of n - 1, ... down to its minimum
ReDigitRun(s, p, k, n) ==
    IF n < DateRangePattern[k].lo THEN <<>>
    ELSE IF p + n - 1 <= Len(s) /\ \A i \in 0..(n - 1) : IsDigit(s[p + i])
    THEN LET Rest(r) == IF r = <<>> THEN ReDigitRun(s, p, k, n - 1) ELSE <<p + n>> \o r
         IN  Rest(ReMatch(s, p + n, k + 1))
    ELSE ReDigitRun(s, p, k, n - 1)

\* re.search(pattern, s): the leftmost match; [found, group1, group2]
RECURSIVE ReSearchFrom(_, _)
ReSearchFrom(s, p) ==
    IF p > Len(s) THEN [found |-> FALSE, group1 |-> <<>>, group2 |-> <<>>]
    ELSE LET At(ends) ==
                 IF ends = <<>> THEN ReSearchFrom(s, p + 1)
                 ELSE [found  |-> TRUE,
                       group1 |-> SubSeq(s, p, ends[Group1Last] - 1),
                       group2 |-> SubSeq(s, ends[Group2First - 1],
                                         ends[Len(ends) - 1] - 1)]
         IN  At(ReMatch(s, p, 1))

re_search(s) == ReSearchFrom(s, 1)

\* The formats parse_date / _parse_date tries, in order.
FilenameDateFormats == <<Chars("%m-%d-%y"), Chars("%m-%d-%Y")>>

\* parse_date (aggregate_daily_data) and _parse_date (verified): the first
\* format that parses, formatted %Y-%m-%d; not ok stands for the ValueError
\* raised after the loop.
RECURSIVE ParseDateFrom(_, _, _)
ParseDateFrom(date_str, i, libc) ==
    IF i > Len(FilenameDateFormats) THEN [ok |-> FALSE, text |-> <<>>]
    ELSE LET Parsed(date) ==
                 IF date.ok THEN [ok |-> TRUE, text |-> strftime_Ymd(date, libc)]
                 ELSE ParseDateFrom(date_str, i + 1, libc)
         IN  Parsed(strptime(date_str, FilenameDateFormats[i]))

_parse_date(date_str, libc) == ParseDateFrom(date_str, 1, libc)

\* The shift test shared by _parse_shift and _parse_dates_and_shift.
FirstShiftWords == Chars("1st shift")

SecondShiftWords == Chars("2nd shift")

ThirdShiftWords == Chars("3rd shift")

Label1st == Chars("1st")

Label2nd == Chars("2nd")

Label3rd == Chars("3rd")

LabelUnspecified == Chars("unspecified")

\* _parse_shift searching the name as it is written, without lower()
_parse_shift_as_written(name) ==
    IF StrIn(FirstShiftWords, name) THEN Label1st
    ELSE IF StrIn(SecondShiftWords, name) THEN Label2nd
    ELSE IF StrIn(ThirdShiftWords, name) THEN Label3rd
    ELSE LabelUnspecified

_parse_shift(name) ==
    LET Shift(lowered) ==
            IF StrIn(FirstShiftWords, lowered) THEN Label1st
            ELSE IF StrIn(SecondShiftWords, lowered) THEN Label2nd
            ELSE IF StrIn(ThirdShiftWords, lowered) THEN Label3rd
            ELSE LabelUnspecified
    IN  Shift(StrLower(name))

NoDates == <<>>

\* _parse_date_range falling back on a default period when the name has no
\* date range
_parse_date_range_defaulting(name, libc) ==
    LET Dates(start, end) ==
            IF ~start.ok \/ ~end.ok
            THEN [raised |-> "ValueError", start |-> NoDates, end |-> NoDates]
            ELSE [raised |-> "none", start |-> start.text, end |-> end.text]
        Matched(date_match) ==
            IF ~date_match.found
            THEN [raised |-> "none", start |-> Chars("1970-01-01"),
                  end |-> Chars("1970-01-01")]
            ELSE Dates(_parse_date(date_match.group1, libc),
                       _parse_date(date_match.group2, libc))
    IN  Matched(re_search(name))

\* _parse_date_range: [raised, start, end]
_parse_date_range(name, libc) ==
    LET Dates(start, end) ==
            IF ~start.ok \/ ~end.ok
            THEN [raised |-> "ValueError", start |-> NoDates, end |-> NoDates]
            ELSE [raised |-> "none", start |-> start.text, end |-> end.text]
        Matched(date_match) ==
            IF ~date_match.found
            THEN [raised |-> "ValueError", start |-> NoDates, end |-> NoDates]
            ELSE Dates(_parse_date(date_match.group1, libc),
                       _parse_date(date_match.group2, libc))
    IN  Matched(re_search(name))

\* _parse_dates_and_shift: [raised, start, end, shift]; shift is the value of
\* the local variable when the function returns or raises.
_parse_dates_and_shift(name, libc) ==
    LET Dates(shift, start_date, end_date) ==
            IF ~start_date.ok \/ ~end_date.ok
            THEN [raised |-> "ValueError", start |-> NoDates, end |-> NoDates,
                  shift |-> shift]
            ELSE [raised |-> "none", start |-> start_date.text, end |-> end_date.text,
                  shift |-> shift]
        Matched(shift, date_match) ==
            IF ~date_match.found
            THEN [raised |-> "ValueError", start |-> NoDates, end |-> NoDates,
                  shift |-> shift]
            ELSE Dates(shift, _parse_date(date_match.group1, libc),
                       _parse_date(date_match.group2, libc))
    IN  Matched(_parse_shift(name), re_search(name))

---------------------------------------------------------------------------
(* Cells and the cell value normalizers                                    *)

\* A cell of a parsed sheet: missing (NaN), a number, text, or a date.
NoDate == [y |-> 0, m |-> 0, d |-> 0]

NaN == [t |-> "nan", n |-> 0, s |-> <<>>, date |-> NoDate]

Num(n) == [t |-> "num", n |-> n, s |-> <<>>, date |-> NoDate]

Str(text) == [t |-> "str", n |-> 0, s |-> text, date |-> NoDate]

Txt(literal) == Str(Chars(literal))

DateCell(y, m, d) == [t |-> "date", n |-> 0, s |-> <<>>, date |-> [y |-> y, m |-> m, d |-> d]]

\* pd.isna(value)
isna(cell) == cell.t = "nan"

\* The number a string denotes for pd.to_numeric: blanks around an optionally
\* signed run of digits (the text cells of the model hold no other numeral);
\* not ok stands for the NaN of errors="coerce".
to_numeric_str(text) ==
    LET Signed(body) == body # <<>> /\ body[1] \in {"-", "+"}
        Numeral(body, digits) ==
            IF digits # <<>> /\ \A i \in 1..Len(digits) : IsDigit(digits[i])
            THEN [ok |-> TRUE,
                  n  |-> IF body[1] = "-" THEN 0 - DigitsToNat(digits)
                         ELSE DigitsToNat(digits)]
            ELSE [ok |-> FALSE, n |-> 0]
        Stripped(body) == Numeral(body, IF Signed(body) THEN Tail(body) ELSE body)
    IN  Stripped(StrStrip(text))

\* _safe_float_default that returns 0.0 whatever default is given
_safe_float_zero(cell, default) ==
    CASE cell.t = "num" -> cell.n
      [] cell.t = "str" -> (LET Coerced(numeric) == IF numeric.ok THEN numeric.n ELSE 0
                            IN  Coerced(to_numeric_str(cell.s)))
      [] OTHER -> 0

\* _safe_float(value, default)
_safe_float_default(cell, default) ==
    CASE cell.t = "num" -> cell.n
      [] cell.t = "str" -> (LET Coerced(numeric) ==
                                    IF numeric.ok THEN numeric.n ELSE default
                            IN  Coerced(to_numeric_str(cell.s)))
      [] OTHER -> default

\* _safe_float(value), default 0.0
_safe_float(cell) == _safe_float_default(cell, 0)

\* str(n) of an integer
IntToStr(n) ==
    IF n = 0 THEN <<"0">>
    ELSE IF n < 0 THEN <<"-">> \o PadNat(0 - n, 0)
    ELSE PadNat(n, 0)

\* str(value) of a cell that is a number, text, a Timestamp or NaN
CellToStr(cell) ==
    CASE cell.t = "num" -> IntToStr(cell.n)
      [] cell.t = "str" -> cell.s
      [] cell.t = "date" -> isoformat(cell.date) \o Chars(" 00:00:00")
      [] OTHER -> Chars("nan")

\* _safe_str without strip()
_safe_str_untrimmed(cell) == IF isna(cell) THEN <<>> ELSE CellToStr(cell)

\* _safe_str(value)
_safe_str(cell) == IF isna(cell) THEN <<>> ELSE StrStrip(CellToStr(cell))

---------------------------------------------------------------------------
(* Sheets and workbooks                                                    *)

\* A sheet as workbook.parse(sheet_name, header=None) returns it: its shape
\* and its cells by zero-based (row, column), the cells not listed being NaN.
\* parse is "ok", or the exception workbook.parse raises on the sheet.
CellAt(data, r, c) ==
    IF <<r, c>> \in DOMAIN data.cells THEN data.cells[<<r, c>>] ELSE NaN

\* data.iloc[r, c]: the cell, or IndexError outside the shape
\* (_extract_date_from_sheet, line 117)
InShape(data, r, c) == r < data.nrows /\ c < data.ncols

---------------------------------------------------------------------------
(* aggregate_daily_data: configuration                                     *)

COL_MACHINE_HOURS == 1

COL_MAN_HOURS == 2

COL_INPUT_ITEM == 3

COL_ACTUAL_INPUT == 4

COL_OUTPUT_PRODUCT == 5

COL_ACTUAL_OUTPUT == 6

COL_OPERATOR == 7

COL_COMMENT == 8

COL_DATE == 9

Range_(machine, start_row, end_row) ==
    [machine |-> Chars(machine), start_row |-> start_row, end_row |-> end_row]

\* MACHINE_DATA_RANGES of aggregate_daily_data, in insertion order
MACHINE_DATA_RANGES ==
    <<Range_("AUTO TIE BALER", 4, 13),
      Range_("BALER 1", 16, 25),
      Range_("BALER 2", 28, 37),
      Range_("GUILLOTINE", 40, 44),
      Range_("SHREDDER", 47, 50),
      Range_("AVANGUARD DENSIFIER (OLD)", 53, 55),
      Range_("GREEN MAX DENSIFIER (NEW)", 58, 60),
      Range_("EXTRUDER", 63, 66),
      Range_("GRINDER", 69, 74)>>

DAILY_SHEETS == <<"Mon", "Tue", "Wed", "Thu", "Fri", "Sat">>

Keywords(category, words) ==
    [category |-> Chars(category), keywords |-> [i \in DOMAIN words |-> Chars(words[i])]]

\* NOTE_CATEGORIES, in insertion order
NOTE_CATEGORIES ==
    <<Keywords("downtime", <<"down", "stopped", "broken", "repair", "fix", "belt",
                             "chiller", "filter">>),
      Keywords("material", <<"no material", "waiting for material", "material shortage",
                             "ran out">>),
      Keywords("quality", <<"no weights", "missing", "not entered", "incomplete">>)>>

CategoryOperational == Chars("operational")

\* _categorize_note(note)
RECURSIVE CategorizeFrom(_, _)
CategorizeFrom(note_lower, i) ==
    IF i > Len(NOTE_CATEGORIES) THEN CategoryOperational
    ELSE IF \E k \in DOMAIN NOTE_CATEGORIES[i].keywords :
                StrIn(NOTE_CATEGORIES[i].keywords[k], note_lower)
    THEN NOTE_CATEGORIES[i].category
    ELSE CategorizeFrom(note_lower, i + 1)

\* _categorize_note searching the note as it is written, without lower()
_categorize_note_as_written(note) ==
    IF note = <<>> THEN <<>> ELSE CategorizeFrom(note, 1)

_categorize_note(note) ==
    IF note = <<>> THEN <<>> ELSE CategorizeFrom(StrLower(note), 1)

\* The formats _extract_date_from_sheet tries, in order.
SheetDateFormats ==
    <<Chars("%Y-%m-%d"), Chars("%m-%d-%y"), Chars("%m-%d-%Y"), Chars("%m/%d/%Y")>>

RECURSIVE SheetDateFrom(_, _, _)
SheetDateFrom(text, i, libc) ==
    IF i > Len(SheetDateFormats) THEN <<>>
    ELSE LET Parsed(date) ==
                 IF date.ok THEN strftime_Ymd(date, libc)
                 ELSE SheetDateFrom(text, i + 1, libc)
         IN  Parsed(strptime(text, SheetDateFormats[i]))

\* _extract_date_from_sheet taking a text no format parses for the date
_extract_date_from_sheet_unchecked(data, libc) ==
    IF ~InShape(data, 0, COL_DATE) THEN <<>>
    ELSE LET Parsed(date_val, sheet_date) ==
                 IF sheet_date = <<>> THEN CellToStr(date_val) ELSE sheet_date
             Of(date_val) ==
                 IF isna(date_val) THEN <<>>
                 ELSE IF date_val.t = "date" THEN strftime_Ymd(date_val.date, libc)
                 ELSE Parsed(date_val, SheetDateFrom(CellToStr(date_val), 1, libc))
         IN  Of(CellAt(data, 0, COL_DATE))

\* _extract_date_from_sheet(data): the date as text, or <<>> for None
_extract_date_from_sheet(data, libc) ==
    IF ~InShape(data, 0, COL_DATE) THEN <<>>
    ELSE LET Of(date_val) ==
                 IF isna(date_val) THEN <<>>
                 ELSE IF date_val.t = "date" THEN strftime_Ymd(date_val.date, libc)
                 ELSE SheetDateFrom(CellToStr(date_val), 1, libc)
         IN  Of(CellAt(data, 0, COL_DATE))

---------------------------------------------------------------------------
(* The workbooks of the aggregator runs                                    *)

\* aggregate_individual_data_verified: the header row and the data columns
HEADER_ROW == 2

DATA_COLUMNS == <<1, 2, 5, 6>>

WeeklyReport == "Weekly Report"

\* The cells of columns 1..8 of row r
RowCells(r, values) == [rc \in {<<r, c>> : c \in 1..8} |-> values[rc[2]]]

\* The cells of the columns DATA_COLUMNS of row r of a weekly sheet
WeeklyCells(r, values) ==
    [rc \in {<<r, DATA_COLUMNS[i]>> : i \in DOMAIN DATA_COLUMNS} |->
        values[CHOOSE i \in DOMAIN DATA_COLUMNS : DATA_COLUMNS[i] = rc[2]]]

DateCellAt(cell) == <<0, COL_DATE>> :> cell

Sheet(name, parse, nrows, ncols, cells) ==
    [name |-> name, parse |-> parse, nrows |-> nrows, ncols |-> ncols, cells |-> cells]

RowFull ==
    <<Num(8), Num(16), Txt("OCC"), Num(1000), Txt("BALES"), Num(900), Txt("Ana"),
      Txt("Belt broken - waiting for material")>>

RowTotals ==
    <<Num(20), Num(40), Txt("Totals"), Num(2500), NaN, Num(2000), NaN, NaN>>

RowBlankItem ==
    <<Num(5), Num(5), Txt("  "), NaN, NaN, Num(10), Txt("Bo"), Txt("no weights")>>

RowEmpty ==
    <<Num(0), Txt("n/a"), Txt("PET"), NaN, NaN, NaN, Txt(" "), Txt("machine down")>>

RowOperatorOnly ==
    <<NaN, NaN, Txt("HDPE"), NaN, NaN, NaN, Txt("Cy"), NaN>>

RowAsText ==
    <<Txt(" 7 "), Txt("-3"), Num(42), Txt("x"), Num(5), Txt("12"), NaN,
      Txt("  Ran out of wire  ")>>

RowHoursOnly ==
    <<Num(4), Num(0), Txt(" FILM"), Num(0), Txt("REGRIND "), Num(0), NaN,
      Txt("Weights not entered")>>

RowSubtotals ==
    <<Num(9), Num(9), Txt("OCC subTOTALS:"), Num(9), NaN, Num(9), Txt("Ana"), NaN>>

MonSheet ==
    Sheet("Mon", "ok", 74, 10,
          DateCellAt(DateCell(2024, 3, 5))
              @@ RowCells(4, RowFull) @@ RowCells(12, RowTotals)
              @@ RowCells(13, RowFull)
              @@ RowCells(47, RowOperatorOnly) @@ RowCells(48, RowBlankItem)
              @@ RowCells(53, RowAsText))

TueSheet ==
    Sheet("Tue", "ok", 80, 12,
          DateCellAt(Txt("2024-03-04"))
              @@ RowCells(63, RowHoursOnly) @@ RowCells(65, RowEmpty)
              @@ RowCells(69, RowFull) @@ RowCells(73, RowSubtotals))

WeeklyHeader == <<Txt("Machine Hours"), Txt("Man Hours "), Txt("Output Product"),
                  Txt("Actual Output (Lbs)")>>

WeeklySheet ==
    Sheet(WeeklyReport, "ok", 74, 7,
          WeeklyCells(HEADER_ROW, WeeklyHeader)
              @@ WeeklyCells(4, <<Num(40), Num(80), Txt("BALES"), Num(5000)>>)
              @@ WeeklyCells(47, <<Txt(" 7 "), NaN, NaN, Txt("n/a")>>)
              @@ WeeklyCells(73, <<Num(0), Num(12), Txt("REGRIND"), Num(300)>>))

\* Only rows that are skipped: a blank sheet with its totals
BlankMonSheet ==
    Sheet("Mon", "ok", 74, 10,
          DateCellAt(DateCell(2024, 3, 4))
              @@ RowCells(12, RowTotals) @@ RowCells(16, RowEmpty)
              @@ RowCells(17, RowBlankItem))

UnreadableTueSheet == Sheet("Tue", "Exception", 0, 0, <<0, 0>> :> NaN)

SmallWeeklySheet ==
    Sheet(WeeklyReport, "ok", 60, 7,
          WeeklyCells(HEADER_ROW, WeeklyHeader)
              @@ WeeklyCells(4, <<Num(1), Num(2), Txt("BALES"), Num(3)>>))

\* 50 rows: the machines up to SHREDDER fit
WedSheet ==
    Sheet("Wed", "ok", 50, 10,
          DateCellAt(Txt("03-01-24"))
              @@ RowCells(4, RowHoursOnly) @@ RowCells(49, RowFull)
              @@ RowCells(16, RowOperatorOnly))

\* 9 columns: no date cell
ThuSheet ==
    Sheet("Thu", "ok", 74, 9, RowCells(4, RowFull))

FriSheet ==
    Sheet("Fri", "ok", 74, 10, DateCellAt(Txt("March 8")) @@ RowCells(4, RowFull))

SatSheet ==
    Sheet("Sat", "ok", 74, 10, DateCellAt(Txt("3/9/2024")) @@ RowCells(40, RowAsText))

WideWeeklySheet ==
    Sheet(WeeklyReport, "ok", 80, 9,
          WeeklyCells(HEADER_ROW, WeeklyHeader)
              @@ WeeklyCells(12, <<Num(6), Num(6), Num(17), Num(60)>>)
              @@ WeeklyCells(13, <<Num(6), Num(6), Txt("GAP"), Num(60)>>)
              @@ WeeklyCells(63, <<Num(2), Txt("3"), Txt("PELLETS"), Txt("-5")>>))

Workbook(opens, sheets) == [opens |-> opens, sheets |-> sheets]

\* The workbooks of the model, by the key a file of the folder refers to its
\* content with: what pd.ExcelFile does with the file (opens: "ok" or the
\* exception it raises) and the sheets it then holds.
Workbooks ==
    ("full" :> Workbook("ok", <<MonSheet, TueSheet, WeeklySheet>>))
        @@ ("not a workbook" :> Workbook("Exception", <<>>))
        @@ ("empty file" :> Workbook("EmptyDataError", <<>>))
        @@ ("blank" :> Workbook("ok", <<BlankMonSheet>>))
        @@ ("damaged" :> Workbook("ok", <<MonSheet, UnreadableTueSheet, SmallWeeklySheet>>))
        @@ ("partial" :> Workbook("ok", <<WideWeeklySheet, WedSheet, ThuSheet, FriSheet,
                                         SatSheet>>))

\* The workbooks of the single-file runs, besides those above.
\* "flags": a Mon sheet whose rows 4..11 hold the eight combinations of
\* machine hours, man hours and output being there, each with another kind
\* of comment, and a totals row with a comment; a Tue sheet with no cell; a
\* Wed sheet of 13 rows, where only the first machine fits; a Thu sheet
\* whose date cell is empty; a weekly sheet of 6 columns.
\* "short": a Mon sheet of 12 rows, too short for any machine, and a weekly
\* sheet of 73 rows.
\* "weekly only": the weekly sheet and no daily sheet.
MoreWorkbooks ==
    ("flags" :> Workbook("ok",
        <<Sheet("Mon", "ok", 74, 10,
                DateCellAt(DateCell(2024, 3, 4))
                    @@ RowCells(4, <<Num(0), NaN, Txt("OCC"), Num(10), NaN, Txt("zero"),
                                     Txt("  "), Txt("chiller down")>>)
                    @@ RowCells(5, <<NaN, Num(8), Txt("PET"), NaN, Txt(" FLAKE"), Num(0),
                                     NaN, Txt("   ")>>)
                    @@ RowCells(6, <<NaN, Txt(""), Txt("PET"), Num(0), NaN, Num(50),
                                     Txt("Dee "), Txt("Training new operator")>>)
                    @@ RowCells(7, <<Num(-5), Num(2), Txt("HDPE"), NaN, NaN, Num(70),
                                     NaN, NaN>>)
                    @@ RowCells(8, <<Num(3), Num(6), Txt("FILM"), NaN, NaN, Num(-1),
                                     NaN, Txt("REPAIR filter")>>)
                    @@ RowCells(9, <<Num(3), NaN, Txt("FILM"), NaN, NaN, NaN,
                                     Txt("Ed"), Txt("prefix of lot 12")>>)
                    @@ RowCells(10, <<Txt("2"), NaN, Txt("total"), NaN, NaN, Txt(" 30"),
                                      NaN, Txt("Totals checked - nothing missing")>>)
                    @@ RowCells(11, <<Num(5), Num(10), Txt("OCC"), Num(700), Txt("BALES"),
                                      Num(600), Txt("Ana"),
                                      Txt("incomplete count - RAN OUT of bags")>>)
                    @@ RowCells(12, <<Num(13), Num(26), Txt("Sub-Totals"), NaN, NaN,
                                      Num(1350), Txt("Ana"), Txt("missing")>>)),
          Sheet("Tue", "ok", 0, 0, <<0, 0>> :> NaN),
          Sheet("Wed", "ok", 13, 10,
                DateCellAt(Txt("3-6-24"))
                    @@ RowCells(4, RowFull) @@ RowCells(12, RowOperatorOnly)),
          Sheet("Thu", "ok", 74, 10, RowCells(4, RowFull)),
          Sheet(WeeklyReport, "ok", 74, 6,
                WeeklyCells(HEADER_ROW, WeeklyHeader)
                    @@ WeeklyCells(4, <<Num(1), Num(2), Txt("BALES"), Num(3)>>))>>))
        @@ ("short" :> Workbook("ok",
        <<Sheet("Mon", "ok", 12, 10,
                DateCellAt(DateCell(2024, 3, 4)) @@ RowCells(4, RowFull)),
          Sheet(WeeklyReport, "ok", 73, 9,
                WeeklyCells(HEADER_ROW, WeeklyHeader)
                    @@ WeeklyCells(4, <<Num(1), Num(2), Txt("BALES"), Num(3)>>))>>))
        @@ ("weekly only" :> Workbook("ok", <<WeeklySheet>>))

\* The header row of the weekly report sheet, columns 1..8
ReportHeader ==
    <<Txt(" Total Machine Hours"), Txt("Total Man Hours "), Txt("Input Item"),
      Txt("Actual Input"), Txt("Output Product"), Txt("Actual Output (Lbs)"), NaN, NaN>>

\* The workbooks of the runs of the two older aggregators, besides "blank"
\* (no weekly sheet) and "not a workbook" above: weekly sheets with the
\* header row ReportHeader.
\* "totals": item rows with numbers, numerals as text, other text and empty
\* cells, and totals rows below the machines' blocks: one complete, one with
\* an empty and a non-numeric cell and a zero, one "Sub-totals", one
\* "Totals" without a hyphen, and an item that is a number.
\* "short report": 40 rows.  "narrow": 6 columns.  "dated": a date in a
\* cell of machine hours.  "stub": 2 rows, no header row.  "unreadable": the
\* sheet cannot be parsed.
ReportWorkbooks ==
    ("totals" :> Workbook("ok",
        <<Sheet(WeeklyReport, "ok", 76, 8,
                RowCells(2, ReportHeader)
                    @@ RowCells(4, <<Num(8), Num(16), Txt("OCC"), Num(1000), Txt("BALES"),
                                     Num(900), NaN, NaN>>)
                    @@ RowCells(5, <<Txt(" 7 "), Num(3), Txt("PET"), NaN, NaN, Txt("x"),
                                     NaN, NaN>>)
                    @@ RowCells(6, <<NaN, Num(0), Txt("FILM"), NaN, Txt("REGRIND"),
                                     Num(50), NaN, NaN>>)
                    @@ RowCells(14, <<Num(40), Num(80), Txt("AUTO TIE BALER - Totals"),
                                      Num(6000), NaN, Num(5000), NaN, NaN>>)
                    @@ RowCells(26, <<NaN, Txt("x"), Txt("BALER 1 - TOTALS"), NaN, NaN,
                                      Num(0), NaN, NaN>>)
                    @@ RowCells(38, <<Txt("12"), Num(0), Txt("Sub-totals"), NaN, NaN,
                                      Txt(" 30"), NaN, NaN>>)
                    @@ RowCells(45, <<Num(0), Num(6), Txt("Totals"), NaN, NaN, NaN,
                                      NaN, NaN>>)
                    @@ RowCells(50, <<Num(1), Num(1), Num(17), NaN, NaN, Num(1),
                                      NaN, NaN>>))>>))
        @@ ("short report" :> Workbook("ok",
        <<Sheet(WeeklyReport, "ok", 40, 8,
                RowCells(2, ReportHeader)
                    @@ RowCells(28, <<Num(2), Num(4), Txt("OCC"), Num(10), Txt("BALES"),
                                      Num(9), NaN, NaN>>)
                    @@ RowCells(38, <<Num(2), Num(4), Txt("BALER 2 - Totals"), Num(10),
                                      NaN, Num(9), NaN, NaN>>))>>))
        @@ ("narrow" :> Workbook("ok",
        <<Sheet(WeeklyReport, "ok", 74, 6,
                RowCells(2, ReportHeader)
                    @@ RowCells(14, <<Num(40), Num(80), Txt("AUTO TIE BALER - Totals"),
                                      Num(6000), NaN, NaN, NaN, NaN>>))>>))
        @@ ("dated" :> Workbook("ok",
        <<Sheet(WeeklyReport, "ok", 76, 8,
                RowCells(2, ReportHeader)
                    @@ RowCells(4, <<DateCell(2024, 3, 4), Num(1), Txt("OCC"), NaN, NaN,
                                     Num(2), NaN, NaN>>)
                    @@ RowCells(14, <<Num(5), Num(0), Txt("AUTO TIE BALER - Totals"),
                                      NaN, NaN, Num(0), NaN, NaN>>))>>))
        @@ ("stub" :> Workbook("ok",
        <<Sheet(WeeklyReport, "ok", 2, 8,
                RowCells(1, <<Txt("Weekly Report"), NaN, NaN, NaN, NaN, NaN, NaN,
                              NaN>>))>>))
        @@ ("unreadable" :> Workbook("ok",
        <<Sheet(WeeklyReport, "Exception", 0, 0, <<0, 0>> :> NaN)>>))

\* pd.ExcelFile(file_path)
ExcelFile(file) == (Workbooks @@ MoreWorkbooks @@ ReportWorkbooks)[file.book]

---------------------------------------------------------------------------
(* aggregate_daily_data.extract_daily_data_from_file                       *)

TotalsWord == Chars("TOTALS")

\* lines 173-180: the normalized cells of one row
DailyRowValues(data, row_idx) ==
    [machine_hours  |-> _safe_float(CellAt(data, row_idx, COL_MACHINE_HOURS)),
     man_hours      |-> _safe_float(CellAt(data, row_idx, COL_MAN_HOURS)),
     input_item     |-> _safe_str(CellAt(data, row_idx, COL_INPUT_ITEM)),
     actual_input   |-> _safe_float(CellAt(data, row_idx, COL_ACTUAL_INPUT)),
     output_product |-> _safe_str(CellAt(data, row_idx, COL_OUTPUT_PRODUCT)),
     actual_output  |-> _safe_float(CellAt(data, row_idx, COL_ACTUAL_OUTPUT)),
     operator       |-> _safe_str(CellAt(data, row_idx, COL_OPERATOR)),
     comment        |-> _safe_str(CellAt(data, row_idx, COL_COMMENT))]

\* IsSkippedItem comparing without upper()
IsSkippedItemCaseSensitive(input_item) ==
    input_item = <<>> \/ StrIn(TotalsWord, input_item)

\* line 183: rows with no meaningful data
IsSkippedItem(input_item) ==
    input_item = <<>> \/ StrIn(TotalsWord, StrUpper(input_item))

\* IsEmptyRow without the test of the operator
IsEmptyRowIgnoringOperator(row) ==
    row.machine_hours = 0 /\ row.man_hours = 0 /\ row.actual_output = 0

\* line 187: completely empty rows
IsEmptyRow(row) ==
    row.machine_hours = 0 /\ row.man_hours = 0 /\ row.actual_output = 0
        /\ row.operator = <<>>

\* Quotient with its operands exchanged
QuotientSwapped(a, b) == [num |-> b, den |-> a]

\* a / b of two numbers, b > 0, kept as the exact fraction
Quotient(a, b) == [num |-> a, den |-> b]

Zero == [num |-> 0, den |-> 1]

BoolToInt(b) == IF b THEN 1 ELSE 0

\* QualityScore with the consistency bonus given to every row
QualityScoreAlwaysBonus(has_machine_hours, has_man_hours, has_output) ==
    BoolToInt(has_machine_hours) * 25 + BoolToInt(has_man_hours) * 25
        + BoolToInt(has_output) * 40 + 10

\* QualityScore without the consistency bonus
QualityScoreNoBonus(has_machine_hours, has_man_hours, has_output) ==
    BoolToInt(has_machine_hours) * 25 + BoolToInt(has_man_hours) * 25
        + BoolToInt(has_output) * 40

\* lines 203-208
QualityScore(has_machine_hours, has_man_hours, has_output) ==
    BoolToInt(has_machine_hours) * 25 + BoolToInt(has_man_hours) * 25
        + BoolToInt(has_output) * 40
        + (IF has_machine_hours = has_output THEN 10 ELSE 0)

\* lines 190-234: the record of a row that is not skipped
DailyRecord(ctx, row) ==
    LET labor_cost    == row.man_hours * ctx.hourly_rate
        total_expense == labor_cost * ctx.overhead_multiplier
    IN  [Date               |-> ctx.sheet_date,
         Day_of_Week        |-> ctx.sheet_name,
         Week_Start         |-> ctx.week_start,
         Week_End           |-> ctx.week_end,
         Shift              |-> ctx.shift,
         Machine_Name       |-> ctx.machine,
         Input_Item         |-> row.input_item,
         Actual_Input       |-> row.actual_input,
         Output_Product     |-> row.output_product,
         Actual_Output      |-> row.actual_output,
         Machine_Hours      |-> row.machine_hours,
         Man_Hours          |-> row.man_hours,
         Operator           |-> row.operator,
         Comment            |-> row.comment,
         Output_per_Hour    |-> IF row.machine_hours > 0
                                THEN Quotient(row.actual_output, row.machine_hours)
                                ELSE Zero,
         Labor_Cost         |-> labor_cost,
         Total_Expense      |-> total_expense,
         Cost_per_Pound     |-> IF row.actual_output > 0
                                THEN Quotient(total_expense, row.actual_output)
                                ELSE Zero,
         Has_Machine_Hours  |-> row.machine_hours > 0,
         Has_Man_Hours      |-> row.man_hours > 0,
         Has_Output         |-> row.actual_output > 0,
         Has_Comment        |-> row.comment # <<>>,
         Data_Quality_Score |-> QualityScore(row.machine_hours > 0, row.man_hours > 0,
                                             row.actual_output > 0)]

\* lines 238-246
NoteRecord(ctx, row) ==
    [Date         |-> ctx.sheet_date,
     Shift        |-> ctx.shift,
     Machine_Name |-> ctx.machine,
     Input_Item   |-> row.input_item,
     Operator     |-> row.operator,
     Note         |-> row.comment,
     Category     |-> _categorize_note(row.comment)]

NoRecords == [raised |-> "none", daily |-> <<>>, notes |-> <<>>]

\* RowsOfMachine reading the row end_row too
RECURSIVE RowsOfMachineInclusive(_, _, _, _)
RowsOfMachineInclusive(data, ctx, row_idx, end_row) ==
    LET Emit(row, rest) ==
            IF IsSkippedItem(row.input_item) \/ IsEmptyRow(row) THEN rest
            ELSE [raised |-> rest.raised,
                  daily  |-> <<DailyRecord(ctx, row)>> \o rest.daily,
                  notes  |-> (IF row.comment # <<>> THEN <<NoteRecord(ctx, row)>>
                              ELSE <<>>) \o rest.notes]
    IN  IF row_idx > end_row THEN NoRecords
        ELSE IF data.ncols <= COL_COMMENT
        THEN [raised |-> "Exception", daily |-> <<>>, notes |-> <<>>]
        ELSE Emit(DailyRowValues(data, row_idx),
                   RowsOfMachineInclusive(data, ctx, row_idx + 1, end_row))

\* lines 170-246: the rows row_idx..end_row-1 of one machine.  row[COL_...]
\* raises KeyError when the sheet has no such column.
RECURSIVE RowsOfMachine(_, _, _, _)
RowsOfMachine(data, ctx, row_idx, end_row) ==
    LET Emit(row, rest) ==
            IF IsSkippedItem(row.input_item) \/ IsEmptyRow(row) THEN rest
            ELSE [raised |-> rest.raised,
                  daily  |-> <<DailyRecord(ctx, row)>> \o rest.daily,
                  notes  |-> (IF row.comment # <<>> THEN <<NoteRecord(ctx, row)>>
                              ELSE <<>>) \o rest.notes]
    IN  IF row_idx >= end_row THEN NoRecords
        ELSE IF data.ncols <= COL_COMMENT
        THEN [raised |-> "Exception", daily |-> <<>>, notes |-> <<>>]
        ELSE Emit(DailyRowValues(data, row_idx),
                   RowsOfMachine(data, ctx, row_idx + 1, end_row))

\* RangeFits asking for a row after the range
RangeFitsWithMargin(data, range) == ~(data.nrows <= range.end_row)

\* lines 166-168: a machine whose range does not fit in the sheet is passed over
RangeFits(data, range) == ~(data.nrows < range.end_row)

\* lines 166-246: the machines k.. of one sheet
RECURSIVE MachinesOfSheet(_, _, _)
MachinesOfSheet(data, ctx, k) ==
    LET Then(here, rest) ==
            IF here.raised # "none" THEN here
            ELSE [raised |-> rest.raised,
                  daily  |-> here.daily \o rest.daily,
                  notes  |-> here.notes \o rest.notes]
        OfRange(range, rest) ==
            IF ~RangeFits(data, range) THEN rest
            ELSE Then(RowsOfMachine(data, [ctx EXCEPT !.machine = range.machine],
                                     range.start_row, range.end_row),
                       rest)
    IN  IF k > Len(MACHINE_DATA_RANGES) THEN NoRecords
        ELSE OfRange(MACHINE_DATA_RANGES[k], MachinesOfSheet(data, ctx, k + 1))

HasSheet(workbook, sheet_name) ==
    \E i \in DOMAIN workbook.sheets : workbook.sheets[i].name = sheet_name

SheetNamed(workbook, sheet_name) ==
    workbook.sheets[CHOOSE i \in DOMAIN workbook.sheets : workbook.sheets[i].name = sheet_name]

LogRecord(level, event, file, sheet) ==
    [level |-> level, event |-> event, file |-> file, sheet |-> sheet]

\* lines 153-246: the daily sheets k.. of the workbook; daily and notes are
\* the lists daily_records and notes_records when the loop ends or an
\* exception leaves it, warnings what was given to the logger.
RECURSIVE SheetsOfWorkbook(_, _, _, _)
SheetsOfWorkbook(workbook, file, ctx, k) ==
    LET Then(sheet_name, here, rest) ==
            IF here.raised # "none"
            THEN [raised |-> here.raised, daily |-> here.daily, notes |-> here.notes,
                  warnings |-> <<>>]
            ELSE [raised   |-> rest.raised,
                  daily    |-> here.daily \o rest.daily,
                  notes    |-> here.notes \o rest.notes,
                  warnings |-> rest.warnings]
        Dated(sheet_name, data, sheet_date, rest) ==
            IF sheet_date = <<>>
            THEN [rest EXCEPT !.warnings =
                     <<LogRecord("warning", "Could not extract date, skipping",
                                 file, sheet_name)>> \o @]
            ELSE Then(sheet_name,
                       MachinesOfSheet(data,
                                       [ctx EXCEPT !.sheet_date = sheet_date,
                                                   !.sheet_name = sheet_name],
                                       1),
                       rest)
        Parsed(sheet_name, data, rest) ==
            IF data.parse # "ok"
            THEN [raised |-> data.parse, daily |-> <<>>, notes |-> <<>>,
                  warnings |-> <<>>]
            ELSE Dated(sheet_name, data, _extract_date_from_sheet(data, ctx.libc), rest)
        OfSheet(sheet_name, rest) ==
            IF ~HasSheet(workbook, sheet_name) THEN rest
            ELSE Parsed(sheet_name, SheetNamed(workbook, sheet_name), rest)
    IN  IF k > Len(DAILY_SHEETS)
        THEN [raised |-> "none", daily |-> <<>>, notes |-> <<>>, warnings |-> <<>>]
        ELSE OfSheet(DAILY_SHEETS[k],
                   SheetsOfWorkbook(workbook, file, ctx, k + 1))

\* extract_daily_data_from_file(file_path, hourly_rate, overhead_multiplier):
\* raised is "none" when it returns (daily_df, notes_df), else the exception.
extract_daily_data_from_file(file, hourly_rate, overhead_multiplier, libc) ==
    LET Context(dates) ==
            [sheet_date |-> <<>>, sheet_name |-> "", machine |-> <<>>,
             week_start |-> dates.start, week_end |-> dates.end,
             shift |-> _parse_shift(file.name),
             hourly_rate |-> hourly_rate, overhead_multiplier |-> overhead_multiplier,
             libc |-> libc]
        Opened(workbook, dates) ==
            IF workbook.opens # "ok"
            THEN [raised |-> workbook.opens, daily |-> <<>>, notes |-> <<>>,
                  warnings |-> <<>>]
            ELSE SheetsOfWorkbook(workbook, file.name, Context(dates), 1)
        Named(dates) ==
            IF dates.raised # "none"
            THEN [raised |-> dates.raised, daily |-> <<>>, notes |-> <<>>,
                  warnings |-> <<>>]
            ELSE Opened(ExcelFile(file), dates)
    IN  Named(_parse_date_range(file.name, libc))

---------------------------------------------------------------------------
(* aggregate_individual_data_verified.extract_data_from_file               *)

\* MACHINE_DATA_RANGES of aggregate_individual_data_verified, in insertion order
VERIFIED_MACHINE_DATA_RANGES ==
    <<Range_("AUTO TIE BALER", 4, 13),
      Range_("BALER 1", 16, 25),
      Range_("BALER 2", 28, 37),
      Range_("GUILLOTINE", 40, 44),
      Range_("SHREDDER", 47, 50),
      Range_("AVANGURAD DENSIFER (OLD)", 53, 55),
      Range_("GREEN MAX DENSIFIER (NEW)", 58, 60),
      Range_("EXTRUDER", 63, 66),
      Range_("GRINDER", 69, 74)>>

\* lines 83-84
min_rows_needed == MaxOf({VERIFIED_MACHINE_DATA_RANGES[i].end_row :
                             i \in DOMAIN VERIFIED_MACHINE_DATA_RANGES})

min_cols_needed == MaxOf(Range(DATA_COLUMNS)) + 1

\* LayoutTooSmall without the test of the columns
LayoutTooShort(data) == data.nrows < min_rows_needed

\* line 85
LayoutTooSmall(data) == data.nrows < min_rows_needed \/ data.ncols < min_cols_needed

\* lines 91-100
final_headers(data, include_shift) ==
    <<Chars("Start Date"), Chars("End Date"), Chars("Machine Name")>>
        \o [i \in DOMAIN DATA_COLUMNS |->
               StrStrip(CellToStr(CellAt(data, HEADER_ROW, DATA_COLUMNS[i])))]
        \o <<Chars("Output per Hour"), Chars("Labor Cost"), Chars("Total Expense"),
             Chars("Production Cost per Pound")>>
        \o (IF include_shift THEN <<Chars("Shift")>> ELSE <<>>)

\* lines 106-131: row_values of the row row_idx of a machine
VerifiedRowValues(data, meta, machine, row_idx, hourly_rate, overhead_multiplier,
                  include_shift) ==
    LET Values(machine_hours, man_hours, output_product, actual_output) ==
            LET labor_cost    == man_hours * hourly_rate
                total_expense == labor_cost * overhead_multiplier
            IN  <<meta.start, meta.end, machine, machine_hours, man_hours,
                  output_product, actual_output,
                  IF machine_hours > 0 THEN Quotient(actual_output, machine_hours)
                  ELSE Zero,
                  labor_cost, total_expense,
                  IF actual_output > 0 THEN Quotient(total_expense, actual_output)
                  ELSE Zero>>
                    \o (IF include_shift THEN <<meta.shift>> ELSE <<>>)
    IN  Values(_safe_float(CellAt(data, row_idx, DATA_COLUMNS[1])),
              _safe_float(CellAt(data, row_idx, DATA_COLUMNS[2])),
              CellAt(data, row_idx, DATA_COLUMNS[3]),
              _safe_float(CellAt(data, row_idx, DATA_COLUMNS[4])))

\* CompiledData leaving out the rows without hours and output
RECURSIVE CompiledDataSkipping(_, _, _, _, _, _)
CompiledDataSkipping(data, meta, k, hourly_rate, overhead_multiplier, include_shift) ==
    IF k > Len(VERIFIED_MACHINE_DATA_RANGES) THEN <<>>
    ELSE LET Kept(row) == ~(row[4] = 0 /\ row[5] = 0 /\ row[7] = 0)
             OfRange(range) ==
                 SelectSeq([i \in 1..(range.end_row - range.start_row) |->
                               VerifiedRowValues(data, meta, range.machine,
                                                 range.start_row + i - 1, hourly_rate,
                                                 overhead_multiplier, include_shift)],
                           Kept)
         IN  OfRange(VERIFIED_MACHINE_DATA_RANGES[k])
             \o CompiledDataSkipping(data, meta, k + 1, hourly_rate, overhead_multiplier,
                                     include_shift)

\* lines 103-133: compiled_data of the machines k..
RECURSIVE CompiledData(_, _, _, _, _, _)
CompiledData(data, meta, k, hourly_rate, overhead_multiplier, include_shift) ==
    IF k > Len(VERIFIED_MACHINE_DATA_RANGES) THEN <<>>
    ELSE LET OfRange(range) ==
                 [i \in 1..(range.end_row - range.start_row) |->
                     VerifiedRowValues(data, meta, range.machine, range.start_row + i - 1,
                                       hourly_rate, overhead_multiplier, include_shift)]
         IN  OfRange(VERIFIED_MACHINE_DATA_RANGES[k])
             \o CompiledData(data, meta, k + 1, hourly_rate, overhead_multiplier,
                             include_shift)

NoFrame == [columns |-> <<>>, rows |-> <<>>]

\* extract_data_from_file(file_path, hourly_rate, overhead_multiplier,
\* include_shift): raised is "none" when it returns the frame, else the
\* exception.
extract_data_from_file(file, hourly_rate, overhead_multiplier, include_shift, libc) ==
    LET Parsed(meta, data) ==
            IF data.parse # "ok" THEN [raised |-> data.parse, frame |-> NoFrame]
            ELSE IF LayoutTooSmall(data) THEN [raised |-> "ValueError", frame |-> NoFrame]
            ELSE [raised |-> "none",
                  frame  |-> [columns |-> final_headers(data, include_shift),
                              rows    |-> CompiledData(data, meta, 1, hourly_rate,
                                                       overhead_multiplier,
                                                       include_shift)]]
        Opened(meta, workbook) ==
            IF workbook.opens # "ok" THEN [raised |-> workbook.opens, frame |-> NoFrame]
            ELSE IF ~HasSheet(workbook, WeeklyReport)
            THEN [raised |-> "ValueError", frame |-> NoFrame]
            ELSE Parsed(meta, SheetNamed(workbook, WeeklyReport))
        Named(meta) ==
            IF meta.raised # "none" THEN [raised |-> meta.raised, frame |-> NoFrame]
            ELSE Opened(meta, ExcelFile(file))
    IN  Named(_parse_dates_and_shift(file.name, libc))

---------------------------------------------------------------------------
(* Floating-point values of the two older aggregators                      *)

\* A float: a number num / den with den > 0, NaN, or an infinity.
Fl(n) == [k |-> "num", num |-> n, den |-> 1]

FlNaN == [k |-> "nan", num |-> 0, den |-> 1]

FlInf(negative) == [k |-> IF negative THEN "-inf" ELSE "inf", num |-> 0, den |-> 1]

\* the greatest common divisor of a >= 0 and b >= 0, not both 0
RECURSIVE GCD(_, _)
GCD(a, b) == IF b = 0 THEN a ELSE GCD(b, a % b)

\* n / d, d > 0, in lowest terms
FlRatio(n, d) ==
    LET Lowest(g) == [k |-> "num", num |-> n \div g, den |-> d \div g]
    IN  Lowest(GCD(IF n < 0 THEN 0 - n ELSE n, d))

\* a * n for an integer n
FlTimes(a, n) == IF a.k = "num" THEN FlRatio(a.num * n, a.den) ELSE a

\* a / b of floats none of which is infinite: division by zero gives an
\* infinity, 0 / 0 and NaN operands give NaN
FlDiv(a, b) ==
    IF a.k # "num" \/ b.k # "num" THEN FlNaN
    ELSE IF b.num = 0 THEN (IF a.num = 0 THEN FlNaN ELSE FlInf(a.num < 0))
    ELSE IF b.num > 0 THEN FlRatio(a.num * b.den, a.den * b.num)
    ELSE FlRatio(0 - a.num * b.den, 0 - a.den * b.num)

\* a > 0, which is False for NaN
FlPositive(a) == a.k = "inf" \/ (a.k = "num" /\ a.num > 0)

\* round(3): to the nearest thousandth, a tie to the even one
FlRound3(a) ==
    LET Nearest(n, d) ==
            LET q == (2000 * n + d) \div (2 * d)
            IN  IF (2000 * n + d) % (2 * d) = 0 /\ q % 2 = 1 THEN q - 1 ELSE q
    IN  IF a.k # "num" THEN a
        ELSE FlRatio(Nearest(a.num, a.den), 1000)

---------------------------------------------------------------------------
(* aggregate_individual_data.extract_data_from_file                        *)

\* pd.read_excel(file_path, sheet_name=..., header=None): the sheet, or the
\* exception raised on a file that is no workbook, on a workbook without the
\* sheet (ValueError) or on a sheet that cannot be parsed.  read_excel closes
\* the file it opened before it returns or raises.
read_excel(file, sheet_name) ==
    LET Parsed(sheet) == [raised |-> sheet.parse, data |-> sheet]
        NoData(raised) == [raised |-> raised,
                           data |-> Sheet(sheet_name, raised, 0, 0, <<0, 0>> :> NaN)]
        Opened(workbook) ==
            IF workbook.opens # "ok" THEN NoData(workbook.opens)
            ELSE IF ~HasSheet(workbook, sheet_name) THEN NoData("ValueError")
            ELSE Parsed(SheetNamed(workbook, sheet_name))
    IN  [Opened(ExcelFile(file)) EXCEPT !.raised = IF @ = "ok" THEN "none" ELSE @]

\* machine_data_ranges (lines 21-31), in insertion order
machine_data_ranges ==
    <<Range_("AUTO TIE BALER", 4, 13),
      Range_("BALER 1", 16, 25),
      Range_("BALER 2", 28, 37),
      Range_("GUILLOTINE", 40, 44),
      Range_("SHREDDER", 47, 50),
      Range_("AVANGURAD DENSIFER (OLD)", 53, 55),
      Range_("GREEN MAX DENSIFIER (NEW)", 58, 60),
      Range_("EXTRUDER", 63, 66),
      Range_("GRINDER", 69, 74)>>

\* the columns B, C, F and G of lines 34 and 43
IndividualColumns == <<1, 2, 5, 6>>

\* `float(x) if x else 0` (lines 47-49): zero and the empty string are
\* false, NaN is true and float(NaN) is NaN; float() raises ValueError on
\* text that is no numeral and TypeError on a date.
float_if_truthy(cell) ==
    CASE cell.t = "nan" -> [raised |-> "none", value |-> FlNaN]
      [] cell.t = "num" -> [raised |-> "none", value |-> Fl(cell.n)]
      [] cell.t = "str" ->
            (LET Converted(numeric) ==
                     IF numeric.ok THEN [raised |-> "none", value |-> Fl(numeric.n)]
                     ELSE [raised |-> "ValueError", value |-> Fl(0)]
             IN  IF cell.s = <<>> THEN [raised |-> "none", value |-> Fl(0)]
                 ELSE Converted(to_numeric_str(cell.s)))
      [] OTHER -> [raised |-> "TypeError", value |-> Fl(0)]

\* lines 44-62: the row appended for the row row_idx of a machine; raised is
\* the exception the try statement of lines 46-51 does not catch
IndividualRowValues(data, start_date, end_date, machine, row_idx, hourly_rate,
                    overhead_multiplier) ==
    LET Values(machine_hours, man_hours, actual_output) ==
            LET labor_cost    == FlTimes(man_hours, hourly_rate)
                total_expense == FlTimes(labor_cost, overhead_multiplier)
            IN  <<start_date, end_date, machine, machine_hours, man_hours,
                  CellAt(data, row_idx, IndividualColumns[3]), actual_output,
                  IF FlPositive(machine_hours) THEN FlDiv(actual_output, machine_hours)
                  ELSE Fl(0),
                  labor_cost, total_expense,
                  IF FlPositive(actual_output) THEN FlDiv(total_expense, actual_output)
                  ELSE Fl(0)>>
        Converted(floats) ==
            LET first == IF \E i \in 1..3 : floats[i].raised # "none"
                         THEN floats[MinOf({i \in 1..3 : floats[i].raised # "none"})].raised
                         ELSE "none"
            IN  CASE first = "none" ->
                        [raised |-> "none",
                         row |-> Values(floats[1].value, floats[2].value, floats[3].value)]
                  [] first = "ValueError" ->
                        [raised |-> "none", row |-> Values(Fl(0), Fl(0), Fl(0))]
                  [] OTHER -> [raised |-> first, row |-> <<>>]
    IN  Converted(<<float_if_truthy(CellAt(data, row_idx, IndividualColumns[1])),
                    float_if_truthy(CellAt(data, row_idx, IndividualColumns[2])),
                    float_if_truthy(CellAt(data, row_idx, IndividualColumns[4]))>>)

\* lines 42-62: compiled_data of the machines k..; the slice
\* data.iloc[start_row:end_row] ends where the sheet ends.  raised is the
\* exception of the first row that raises one.
RECURSIVE IndividualCompiled(_, _, _, _, _, _)
IndividualCompiled(data, start_date, end_date, k, hourly_rate, overhead_multiplier) ==
    IF k > Len(machine_data_ranges) THEN [raised |-> "none", rows |-> <<>>]
    ELSE LET OfRange(range) ==
                 [i \in 1..(MinOf({range.end_row, data.nrows})
                               - MinOf({range.start_row, data.nrows})) |->
                     IndividualRowValues(data, start_date, end_date, range.machine,
                                         range.start_row + i - 1, hourly_rate,
                                         overhead_multiplier)]
             After(of_range, rest) ==
                 IF \E i \in DOMAIN of_range : of_range[i].raised # "none"
                 THEN [raised |-> of_range[MinOf({i \in DOMAIN of_range :
                                                     of_range[i].raised # "none"})].raised,
                       rows |-> <<>>]
                 ELSE IF rest.raised # "none" THEN rest
                 ELSE [raised |-> "none",
                       rows |-> [i \in DOMAIN of_range |-> of_range[i].row] \o rest.rows]
         IN  After(OfRange(machine_data_ranges[k]),
                   IndividualCompiled(data, start_date, end_date, k + 1, hourly_rate,
                                      overhead_multiplier))

\* extract_data_from_file(file_path, hourly_rate, overhead_multiplier) of
\* aggregate_individual_data: raised is "none" when it returns the frame,
\* else the exception.  Both dates are parsed with %m-%d-%y alone.
individual_extract_data_from_file(file, hourly_rate, overhead_multiplier, libc) ==
    LET Failed(raised) == [raised |-> raised, frame |-> NoFrame]
        headers(data) ==
            [i \in DOMAIN IndividualColumns |->
                StrStrip(CellToStr(CellAt(data, 2, IndividualColumns[i])))]
        Compiled(data, compiled) ==
            IF compiled.raised # "none" THEN Failed(compiled.raised)
            ELSE [raised |-> "none",
                  frame |-> [columns |->
                                <<Chars("Start Date"), Chars("End Date"),
                                  Chars("Machine Name")>> \o headers(data)
                                    \o <<Chars("Output per Hour"), Chars("Labor Cost"),
                                         Chars("Total Expense"),
                                         Chars("Production Cost per Pound")>>,
                             rows |-> compiled.rows]]
        Read(start, end, read) ==
            IF read.raised # "none" THEN Failed(read.raised)
            ELSE IF \E i \in DOMAIN IndividualColumns :
                        ~InShape(read.data, 2, IndividualColumns[i])
            THEN Failed("IndexError")
            ELSE Compiled(read.data,
                          IndividualCompiled(read.data, strftime_Ymd(start, libc),
                                             strftime_Ymd(end, libc), 1, hourly_rate,
                                             overhead_multiplier))
        Dated(start, end) ==
            IF ~start.ok \/ ~end.ok THEN Failed("ValueError")
            ELSE Read(start, end, read_excel(file, WeeklyReport))
        Matched(date_match) ==
            IF ~date_match.found THEN Failed("ValueError")
            ELSE Dated(strptime(date_match.group1, Chars("%m-%d-%y")),
                       strptime(date_match.group2, Chars("%m-%d-%y")))
    IN  Matched(re_search(file.name))

---------------------------------------------------------------------------
(* DataFrame operations of the aggregators                                 *)

\* pd.concat(frames, ignore_index=True) of lists of rows
RECURSIVE ConcatFrom(_, _)
ConcatFrom(frames, i) ==
    IF i > Len(frames) THEN <<>> ELSE frames[i] \o ConcatFrom(frames, i + 1)

concat(frames) == ConcatFrom(frames, 1)

\* The order of sort_values(["Date", "Shift", "Machine_Name"]): a before b
SortKeyLess(a, b) ==
    \/ StrLess(a.Date, b.Date)
    \/ /\ a.Date = b.Date
       /\ \/ StrLess(a.Shift, b.Shift)
          \/ /\ a.Shift = b.Shift
             /\ StrLess(a.Machine_Name, b.Machine_Name)

\* sort_values left out: the rows in the order of the concatenation
sort_values_skipped(rows) == rows

\* DataFrame.sort_values(["Date", "Shift", "Machine_Name"]), a stable sort:
\* a row goes after the rows with a smaller key and the earlier rows with
\* the same key
SortedPosition(rows, i) ==
    1 + Cardinality({j \in DOMAIN rows :
                       \/ SortKeyLess(rows[j], rows[i])
                       \/ ~SortKeyLess(rows[i], rows[j]) /\ j < i})

sort_values(rows) ==
    CHOOSE sorted \in
        {[p \in DOMAIN rows |-> (CHOOSE at \in placed : at[1] = p)[2]] :
            placed \in {{<<SortedPosition(rows, i), rows[i]>> : i \in DOMAIN rows}}} : TRUE

---------------------------------------------------------------------------
(* The files, configurations and platforms of the aggregator runs          *)

FolderNames ==
    {Chars("processing weights 1st shift 03-04-24 to 03-10-24.xlsx"),
     Chars("processing weights 2nd shift 2-26-24 to 3-3-2024.xlsx"),
     Chars("weekly processing weights 3rd shift 03-11-24 to 03-17-24.xlsx"),
     Chars("processing weights report.xlsx"),
     Chars("~$processing weights 1st shift 03-04-24 to 03-10-24.xlsx"),
     Chars("report.xlsx")}

\* (hourly_rate, overhead_multiplier, include_shift) of a run
RunConfigs ==
    {[hourly_rate |-> 24, overhead_multiplier |-> 1, include_shift |-> FALSE],
     [hourly_rate |-> 30, overhead_multiplier |-> 2, include_shift |-> TRUE]}

\* The files a folder of the model can hold.
FolderFiles == {[name |-> n, book |-> b] : n \in FolderNames, b \in DOMAIN Workbooks}

\* The files of the single-file runs: a name the parsers accept, with any
\* workbook.
SingleFiles ==
    {[name |-> n, book |-> b] :
        n \in {Chars("processing weights 1st shift 03-04-24 to 03-10-24.xlsx"),
               Chars("processing weights 2-26-24 to 3-3-2024.xlsx")},
        b \in DOMAIN Workbooks \cup DOMAIN MoreWorkbooks}

\* aggregate_daily_data lines 144-148: workbook = pd.ExcelFile(file_path) is
\* reached when the name has been parsed, and binds the workbook when the
\* file can be opened.  Nothing in the module closes it: there is no call of
\* close() and no with statement.
DailyOpens(file, libc) ==
    _parse_date_range(file.name, libc).raised = "none" /\ ExcelFile(file).opens = "ok"

\* aggregate_individual_data_verified lines 72-76: the same
VerifiedOpens(file, libc) ==
    _parse_dates_and_shift(file.name, libc).raised = "none" /\ ExcelFile(file).opens = "ok"

\* The extraction functions read nothing but their arguments and the file:
\* what they return or raise is computed once for each file, configuration
\* and platform of the model.
\* opens tells whether the call came to hold a workbook.
DailyExtractions ==
    {[file |-> f, config |-> c, libc |-> l,
      result |-> extract_daily_data_from_file(f, c.hourly_rate, c.overhead_multiplier, l),
      opens |-> DailyOpens(f, l)] :
        f \in FolderFiles \cup SingleFiles, c \in RunConfigs, l \in Platforms}

VerifiedExtractions ==
    {[file |-> f, config |-> c, libc |-> l,
      result |-> extract_data_from_file(f, c.hourly_rate, c.overhead_multiplier,
                                        c.include_shift, l),
      opens |-> VerifiedOpens(f, l)] :
        f \in FolderFiles \cup SingleFiles, c \in RunConfigs, l \in Platforms}

\* the call extract_daily_data_from_file(file, ...) of a run
DailyExtracted(file, cfg, libc) ==
    (CHOOSE e \in DailyExtractions :
        e.file = file /\ e.config = cfg /\ e.libc = libc).result

\* the call extract_data_from_file(file, ...) of a run
VerifiedExtracted(file, cfg, libc) ==
    (CHOOSE e \in VerifiedExtractions :
        e.file = file /\ e.config = cfg /\ e.libc = libc).result

\* whether the call extract_daily_data_from_file(file, ...) opened a workbook
DailyOpened(file, cfg, libc) ==
    (CHOOSE e \in DailyExtractions :
        e.file = file /\ e.config = cfg /\ e.libc = libc).opens

\* whether the call extract_data_from_file(file, ...) opened a workbook
VerifiedOpened(file, cfg, libc) ==
    (CHOOSE e \in VerifiedExtractions :
        e.file = file /\ e.config = cfg /\ e.libc = libc).opens

---------------------------------------------------------------------------
(* The folder-level aggregators                                            *)

GlobMarker == Chars("processing weights")

GlobSuffix == Chars(".xlsx")

\* Path.glob("*processing weights*.xlsx"): the marker, then the suffix at the end
GlobMatches(name) ==
    /\ MatchesAt(name, GlobSuffix, Len(name) - Len(GlobSuffix) + 1)
    /\ \E p \in 1..Len(name) :
          /\ MatchesAt(name, GlobMarker, p)
          /\ p + Len(GlobMarker) - 1 <= Len(name) - Len(GlobSuffix)

\* p.name.startswith("~")
IsLockFile(name) == MatchesAt(name, <<"~">>, 1)

\* sorted(...) of a set of files: by name, which is unique in a folder
SortedByName(files) ==
    [p \in 1..Cardinality(files) |->
        CHOOSE f \in files :
            Cardinality({g \in files : StrLess(g.name, f.name)}) = p - 1]

\* lines 258 / 147
Candidates(dir) == SortedByName({f \in dir : GlobMatches(f.name) /\ ~IsLockFile(f.name)})

NotWritten == [written |-> FALSE, rows |-> <<>>]

NotWrittenFrame == [written |-> FALSE, columns |-> <<>>, rows |-> <<>>]

\* lines 257-262 (daily) and 146-150 (verified): the candidate files; an
\* empty list ends the run
Discover ==
    /\ pipeline \in {"daily", "verified"}
    /\ pc = "start"
    /\ \E found \in {Candidates(folder)} :
          /\ file_paths' = found
          /\ IF found = <<>>
             THEN /\ log' = Append(log, LogRecord("info",
                                       "No processing report files found", <<>>, ""))
                  /\ pc' = "done"
             ELSE /\ log' = log
                  /\ pc' = "loop"
    /\ UNCHANGED <<opened, master_data>>
    /\ UNCHANGED <<pipeline, platform, folder, config, idx, daily_dataframes, notes_dataframes,
                   dataframes, aggregated_daily, aggregated_notes, aggregated_data,
                   outcomes, file_name, parsed>>

\* lines 279-284 / 163-168: what the except clause that catches `raised` logs
ExceptLog(raised, file) ==
    CASE raised = "none" -> <<>>
      [] raised = "ValueError" -> <<LogRecord("warning", "Skipping", file, "")>>
      [] raised = "EmptyDataError" ->
            <<LogRecord("warning", "Empty or corrupt file", file, "")>>
      [] OTHER -> <<LogRecord("error", "Unexpected error processing", file, "")>>

\* AfterFile with the exception of a file left uncaught: the function ends
AfterFileRaising(i, n, raised) ==
    IF raised # "none" THEN "done" ELSE IF i < n THEN "loop" ELSE "export"

\* AfterFile with an except clause that leaves the loop
AfterFileStopping(i, n, raised) ==
    IF raised = "none" /\ i < n THEN "loop" ELSE "export"

\* the for statement after the body has run for file i of n, the body having
\* ended normally or in one of its except clauses
AfterFile(i, n, raised) == IF i < n THEN "loop" ELSE "export"

\* AppendUnlessEmpty without the test of df.empty
AppendAlways(frames, df) == Append(frames, df)

\* lines 275-278: a frame is kept unless it is empty
AppendUnlessEmpty(frames, df) == IF df # <<>> THEN Append(frames, df) ELSE frames

\* AppendReturned keeping what the extraction had gathered when it raised
AppendGathered(frames, raised, df) == AppendUnlessEmpty(frames, df)

\* lines 269-278: the appends follow the call inside the try statement, so a
\* frame reaches the list only when extract_daily_data_from_file returned
AppendReturned(frames, raised, df) ==
    IF raised = "none" THEN AppendUnlessEmpty(frames, df) ELSE frames

\* lines 267-284: the loop body of aggregate_daily_folder for one file
DailyProcessFile ==
    /\ pipeline = "daily"
    /\ pc = "loop"
    /\ \E r \in {DailyExtracted(file_paths[idx], config, platform)} :
          /\ log' = log \o <<LogRecord("info", "Processing", file_paths[idx].name, "")>>
                        \o r.warnings \o ExceptLog(r.raised, file_paths[idx].name)
          /\ daily_dataframes' = AppendReturned(daily_dataframes, r.raised, r.daily)
          /\ notes_dataframes' = AppendReturned(notes_dataframes, r.raised, r.notes)
          /\ outcomes' = Append(outcomes, [file |-> file_paths[idx].name,
                                           raised |-> r.raised])
          /\ pc' = AfterFile(idx, Len(file_paths), r.raised)
    /\ opened' = IF DailyOpened(file_paths[idx], config, platform)
                 THEN opened \cup {file_paths[idx].name} ELSE opened
    /\ idx' = idx + 1
    /\ UNCHANGED master_data
    /\ UNCHANGED <<pipeline, platform, folder, config, file_paths, dataframes, aggregated_daily,
                   aggregated_notes, aggregated_data, file_name, parsed>>

\* lines 286-304: the two exports of aggregate_daily_folder
DailyExport ==
    /\ pipeline = "daily"
    /\ pc = "export"
    /\ \E daily \in {concat(daily_dataframes)} :
          aggregated_daily' =
              IF daily_dataframes # <<>>
              THEN [written |-> TRUE, rows |-> sort_values(daily)]
              ELSE aggregated_daily
    /\ \E notes \in {concat(notes_dataframes)} :
          aggregated_notes' =
              IF notes_dataframes # <<>>
              THEN [written |-> TRUE, rows |-> sort_values(notes)]
              ELSE aggregated_notes
    /\ log' = log
          \o <<IF daily_dataframes # <<>>
               THEN LogRecord("info", "Daily data saved", <<>>, "")
               ELSE LogRecord("warning", "No daily data aggregated.", <<>>, "")>>
          \o <<IF notes_dataframes # <<>>
               THEN LogRecord("info", "Notes saved", <<>>, "")
               ELSE LogRecord("info", "No supervisor notes found.", <<>>, "")>>
    /\ pc' = "done"
    /\ UNCHANGED <<opened, master_data>>
    /\ UNCHANGED <<pipeline, platform, folder, config, file_paths, idx, daily_dataframes,
                   notes_dataframes, dataframes, aggregated_data, outcomes, file_name,
                   parsed>>

\* lines 153-168: the loop body of the verified aggregate_folder for one file
VerifiedProcessFile ==
    /\ pipeline = "verified"
    /\ pc = "loop"
    /\ \E r \in {VerifiedExtracted(file_paths[idx], config, platform)} :
          /\ log' = log \o <<LogRecord("info", "Processing", file_paths[idx].name, "")>>
                        \o ExceptLog(r.raised, file_paths[idx].name)
          /\ dataframes' = IF r.raised = "none" THEN Append(dataframes, r.frame)
                           ELSE dataframes
          /\ outcomes' = Append(outcomes, [file |-> file_paths[idx].name,
                                           raised |-> r.raised])
          /\ pc' = AfterFile(idx, Len(file_paths), r.raised)
    /\ opened' = IF VerifiedOpened(file_paths[idx], config, platform)
                 THEN opened \cup {file_paths[idx].name} ELSE opened
    /\ idx' = idx + 1
    /\ UNCHANGED master_data
    /\ UNCHANGED <<pipeline, platform, folder, config, file_paths, daily_dataframes,
                   notes_dataframes, aggregated_daily, aggregated_notes, aggregated_data,
                   file_name, parsed>>

\* lines 170-177: the export of the verified aggregate_folder.  The frames of
\* the workbooks of the model have the same columns (one header row), so
\* pd.concat stacks their rows.
VerifiedExport ==
    /\ pipeline = "verified"
    /\ pc = "export"
    /\ IF dataframes = <<>>
       THEN /\ log' = Append(log, LogRecord("warning",
                                 "No data aggregated; check the input files.", <<>>, ""))
            /\ aggregated_data' = aggregated_data
       ELSE /\ aggregated_data' =
                  [written |-> TRUE,
                   columns |-> dataframes[1].columns,
                   rows    |-> concat([i \in DOMAIN dataframes |-> dataframes[i].rows])]
            /\ log' = Append(log, LogRecord("info", "Aggregated data saved", <<>>, ""))
    /\ pc' = "done"
    /\ UNCHANGED <<opened, master_data>>
    /\ UNCHANGED <<pipeline, platform, folder, config, file_paths, idx, daily_dataframes,
                   notes_dataframes, dataframes, aggregated_daily, aggregated_notes,
                   outcomes, file_name, parsed>>

\* The workbook of a file that has been processed is garbage: the local
\* variable workbook is gone with the call (lines 148 / 76).  The file it
\* holds open is released when the interpreter finalizes the object, at a
\* time the code does not decide: on the return of the call where reference
\* counting reaches the object, at a later collection, or when the process
\* ends.  A collection: the interpreter finalizes the workbooks that are
\* garbage.
Collect ==
    /\ pipeline \in {"daily", "verified"}
    /\ opened # {}
    /\ opened' = {}
    /\ UNCHANGED <<pipeline, platform, folder, config, pc, file_paths, idx,
                   daily_dataframes, notes_dataframes, dataframes, aggregated_daily,
                   aggregated_notes, aggregated_data, log, outcomes, file_name, parsed,
                   master_data>>

---------------------------------------------------------------------------
(* aggregate_weekly_data: extract_week_date and process_weekly_report      *)

\* extract_week_date(file_name): re.search of (\d{1,2}-\d{1,2}-\d{2}), the
\* leftmost match with the longest digit runs tried first, then
\* pd.to_datetime(..., format="%m-%d-%y"); not ok stands for None.
extract_week_date(name) ==
    LET Digits(p, n) == p + n - 1 <= Len(name) /\ \A i \in 0..(n - 1) : IsDigit(name[p + i])
        Hyphen(p) == p <= Len(name) /\ name[p] = "-"
        MatchesWith(p, a, b) ==
            /\ Digits(p, a) /\ Hyphen(p + a)
            /\ Digits(p + a + 1, b) /\ Hyphen(p + a + b + 1)
            /\ Digits(p + a + b + 2, 2)
        runs == <<<<2, 2>>, <<2, 1>>, <<1, 2>>, <<1, 1>>>>
        Matching(p) == {i \in DOMAIN runs : MatchesWith(p, runs[i][1], runs[i][2])}
        MatchAt(p) ==
            LET run == runs[MinOf(Matching(p))]
            IN  SubSeq(name, p, p + run[1] + run[2] + 3)
        starts == {p \in 1..Len(name) : Matching(p) # {}}
    IN  IF starts = {} THEN [ok |-> FALSE, y |-> 0, m |-> 0, d |-> 0]
        ELSE strptime(MatchAt(MinOf(starts)), Chars("%m-%d-%y"))

\* the column names the totals are read from, in the order of lines 47-49
TotalsColumns ==
    <<Chars("Total Machine Hours"), Chars("Total Man Hours"), Chars("Actual Output (Lbs)")>>

\* `pd.to_numeric(x, errors="coerce") or 0.0`: the number, and 0.0 in place
\* of a zero; what cannot be converted is coerced to NaN, which is true, so
\* that `or` keeps it.  (The totals rows of the model hold no date.)
to_numeric_or_zero(cell) ==
    CASE cell.t = "num" -> Fl(cell.n)
      [] cell.t = "str" -> (LET Coerced(numeric) ==
                                    IF numeric.ok THEN Fl(numeric.n) ELSE FlNaN
                            IN  Coerced(to_numeric_str(cell.s)))
      [] OTHER -> FlNaN

\* line 44: "-".join(item.split("-")[:-1]).strip(), the text before the last
\* hyphen, and nothing when there is none
machine_name_of(item) ==
    LET hyphens == {p \in 1..Len(item) : item[p] = "-"}
    IN  IF hyphens = {} THEN <<>>
        ELSE StrStrip(SubSeq(item, 1, MaxOf(hyphens) - 1))

\* process_weekly_report(file_path, week_date), lines 30-65: the sheet is
\* read with its row 2 as the header row, the rows below are the data.  Any
\* exception is caught: the message is printed and an empty frame returned;
\* raised tells which.  The header cells of the model's sheets are text or
\* empty, and no two hold the same name.
process_weekly_report(file, week_date) ==
    LET Failed(raised) == [raised |-> raised, rows |-> <<>>]
        Columns(data, column_name) ==
            {c \in 0..(data.ncols - 1) :
                /\ CellAt(data, 2, c).t = "str"
                /\ StrStrip(CellAt(data, 2, c).s) = column_name}
        Has(data, column_name) == Columns(data, column_name) # {}
        Value(data, r, column_name) ==
            CellAt(data, r, CHOOSE c \in Columns(data, column_name) : TRUE)
        IsTotals(item) == item.t = "str" /\ StrIn(Chars("totals"), StrLower(item.s))
        Record(data, r) ==
            [Week_Date           |-> week_date,
             Machine_Name        |-> machine_name_of(Value(data, r, Chars("Input Item")).s),
             Total_Machine_Hours |-> to_numeric_or_zero(Value(data, r, TotalsColumns[1])),
             Total_Man_Hours     |-> to_numeric_or_zero(Value(data, r, TotalsColumns[2])),
             Total_Output_Weight |-> to_numeric_or_zero(Value(data, r, TotalsColumns[3]))]
        totals_rows(data) ==
            SelectSeq([i \in 1..(data.nrows - 3) |-> i + 2],
                      LAMBDA r : IsTotals(Value(data, r, Chars("Input Item"))))
        Extracted(data) ==
            IF data.nrows <= 2 THEN Failed("ValueError")
            ELSE IF data.nrows = 3 THEN [raised |-> "none", rows |-> <<>>]
            ELSE IF ~Has(data, Chars("Input Item")) THEN Failed("KeyError")
            ELSE IF totals_rows(data) # <<>>
                    /\ \E i \in DOMAIN TotalsColumns : ~Has(data, TotalsColumns[i])
            THEN Failed("KeyError")
            ELSE [raised |-> "none",
                  rows |-> [i \in DOMAIN totals_rows(data) |->
                               Record(data, totals_rows(data)[i])]]
        Read(read) == IF read.raised # "none" THEN Failed(read.raised)
                      ELSE Extracted(read.data)
    IN  Read(read_excel(file, WeeklyReport))

\* lines 101-108 of aggregate_data for one row of master_data: the analysis
\* columns, rounded, and the infinities and missing values of the two
\* quotients replaced by 0
WeeklyAnalysis(row, hourly_wage, overhead_multiplier) ==
    LET Replaced(a) == IF a.k = "num" THEN a ELSE Fl(0)
        Analysed(labor_cost) ==
            LET total_expense == FlRound3(FlTimes(labor_cost, overhead_multiplier))
            IN  [Week_Date           |-> row.Week_Date,
                 Machine_Name        |-> row.Machine_Name,
                 Total_Machine_Hours |-> row.Total_Machine_Hours,
                 Total_Man_Hours     |-> row.Total_Man_Hours,
                 Total_Output_Weight |-> row.Total_Output_Weight,
                 Labor_Cost          |-> labor_cost,
                 Total_Expense       |-> total_expense,
                 Production_Cost_per_Pound |->
                     Replaced(FlRound3(FlDiv(total_expense, row.Total_Output_Weight))),
                 Output_per_Hour |->
                     Replaced(FlRound3(FlDiv(row.Total_Output_Weight,
                                             row.Total_Machine_Hours)))]
    IN  Analysed(FlRound3(FlTimes(row.Total_Man_Hours, hourly_wage)))

---------------------------------------------------------------------------
(* aggregate_individual_data.aggregate_folder and                          *)
(* aggregate_weekly_data.aggregate_data                                    *)

\* The names of the reports in the folders of these runs
ReportNames ==
    {Chars("processing weights 03-04-24 to 03-10-24.xlsx"),
     Chars("processing weights 2-26-24 to 3-3-2024.xlsx"),
     Chars("processing weights report.xlsx")}

\* The other entries of these folders: the lock file a spreadsheet program
\* leaves, and a file that is no workbook
OtherNames ==
    {Chars("~$processing weights 03-04-24 to 03-10-24.xlsx"), Chars("master_file.csv")}

\* What a file of that name can hold
ReportBooks(name) ==
    IF name \in ReportNames THEN DOMAIN ReportWorkbooks \cup {"blank", "not a workbook"}
    ELSE {"not a workbook"}

\* file.startswith(prefix)
StartsWith(name, prefix) == MatchesAt(name, prefix, 1)

\* file.endswith(suffix)
EndsWith(name, suffix) == MatchesAt(name, suffix, Len(name) - Len(suffix) + 1)

\* aggregate_individual_data lines 69-73: the condition of the comprehension
IsIndividualReport(name) ==
    /\ StartsWith(name, GlobMarker)
    /\ EndsWith(name, GlobSuffix)
    /\ ~StartsWith(name, <<"~">>)

\* os.listdir(folder_path): the entries of the folder "in arbitrary order"
listdir(dir) ==
    {order \in [1..Cardinality(dir) -> dir] :
        \A i, j \in 1..Cardinality(dir) : order[i] = order[j] => i = j}

\* print(...)
Stdout(event, file) == LogRecord("print", event, file, "")

\* aggregate_individual_data lines 69-76 and aggregate_weekly_data lines
\* 75-84: the files the loop goes through, in the order os.listdir gives
\* them.  The weekly loop takes every entry and tests its name in its body.
ListFolder ==
    /\ pipeline \in {"individual", "weekly"}
    /\ pc = "start"
    /\ \E order \in listdir(folder) :
          /\ file_paths' = IF pipeline = "individual"
                           THEN SelectSeq(order, LAMBDA f : IsIndividualReport(f.name))
                           ELSE order
    /\ pc' = IF file_paths' = <<>> THEN "export" ELSE "loop"
    /\ UNCHANGED <<pipeline, platform, folder, config, idx, daily_dataframes,
                   notes_dataframes, dataframes, aggregated_daily, aggregated_notes,
                   aggregated_data, log, outcomes, file_name, parsed, opened, master_data>>

\* aggregate_individual_data lines 77-82: the loop body for one file
IndividualProcessFile ==
    /\ pipeline = "individual"
    /\ pc = "loop"
    /\ \E r \in {individual_extract_data_from_file(file_paths[idx], config.hourly_rate,
                                                   config.overhead_multiplier,
                                                   platform)} :
          /\ aggregated_data' =
                IF r.raised # "none" THEN aggregated_data
                ELSE [written |-> FALSE,
                      columns |-> r.frame.columns,
                      rows    |-> aggregated_data.rows \o r.frame.rows]
          /\ log' = IF r.raised = "none" THEN log
                    ELSE Append(log, Stdout("Error processing file",
                                             file_paths[idx].name))
          /\ outcomes' = Append(outcomes, [file |-> file_paths[idx].name,
                                           raised |-> r.raised])
    /\ pc' = IF idx < Len(file_paths) THEN "loop" ELSE "export"
    /\ idx' = idx + 1
    /\ UNCHANGED <<pipeline, platform, folder, config, file_paths, daily_dataframes,
                   notes_dataframes, dataframes, aggregated_daily, aggregated_notes,
                   file_name, parsed, opened, master_data>>

\* aggregate_individual_data lines 84-87: to_excel is called whatever the
\* loop has gathered
IndividualExport ==
    /\ pipeline = "individual"
    /\ pc = "export"
    /\ aggregated_data' = [aggregated_data EXCEPT !.written = TRUE]
    /\ log' = Append(log, Stdout("Aggregated data saved", <<>>))
    /\ pc' = "done"
    /\ UNCHANGED <<pipeline, platform, folder, config, file_paths, idx, daily_dataframes,
                   notes_dataframes, dataframes, aggregated_daily, aggregated_notes,
                   outcomes, file_name, parsed, opened, master_data>>

\* aggregate_weekly_data lines 84-98: the loop body for one entry of the
\* folder
WeeklyProcessFile ==
    /\ pipeline = "weekly"
    /\ pc = "loop"
    /\ \E week_date \in {extract_week_date(file_paths[idx].name)} :
          IF ~EndsWith(file_paths[idx].name, GlobSuffix)
          THEN /\ outcomes' = Append(outcomes, [file |-> file_paths[idx].name,
                                                raised |-> "not xlsx"])
               /\ UNCHANGED <<log, master_data>>
          ELSE IF ~week_date.ok
          THEN /\ log' = Append(log, Stdout("Could not parse date from file name",
                                             file_paths[idx].name))
               /\ outcomes' = Append(outcomes, [file |-> file_paths[idx].name,
                                                raised |-> "no date"])
               /\ UNCHANGED master_data
          ELSE \E r \in {process_weekly_report(file_paths[idx], week_date)} :
                  /\ master_data' = [master_data EXCEPT !.rows = @ \o r.rows]
                  /\ log' = IF r.raised = "none" THEN log
                            ELSE Append(log, Stdout("Error processing file",
                                                     file_paths[idx].name))
                  /\ outcomes' = Append(outcomes, [file |-> file_paths[idx].name,
                                                   raised |-> r.raised])
    /\ pc' = IF idx < Len(file_paths) THEN "loop" ELSE "export"
    /\ idx' = idx + 1
    /\ UNCHANGED <<pipeline, platform, folder, config, file_paths, daily_dataframes,
                   notes_dataframes, dataframes, aggregated_daily, aggregated_notes,
                   aggregated_data, file_name, parsed, opened>>

\* aggregate_weekly_data lines 100-112: the analysis columns, then to_csv,
\* whatever the loop has gathered.  master_data starts as a frame of object
\* columns (lines 78-81); where the pandas of the build keeps them so in
\* pd.concat and its round() refuses object columns, line 101 raises
\* TypeError and the run ends there; elsewhere the file is written.
WeeklyExport ==
    /\ pipeline = "weekly"
    /\ pc = "export"
    /\ \E round_raises \in BOOLEAN :
          IF round_raises
          THEN /\ outcomes' = Append(outcomes, [file |-> <<>>, raised |-> "TypeError"])
               /\ UNCHANGED <<master_data, log>>
          ELSE /\ master_data' =
                     [written |-> TRUE,
                      rows |-> [i \in DOMAIN master_data.rows |->
                                   WeeklyAnalysis(master_data.rows[i], config.hourly_rate,
                                                  config.overhead_multiplier)]]
               /\ log' = Append(log, Stdout("Master file updated successfully", <<>>))
               /\ outcomes' = outcomes
    /\ pc' = "done"
    /\ UNCHANGED <<pipeline, platform, folder, config, file_paths, idx, daily_dataframes,
                   notes_dataframes, dataframes, aggregated_daily, aggregated_notes,
                   aggregated_data, file_name, parsed, opened>>

---------------------------------------------------------------------------
(* The aggregator runs                                                     *)

\* The largest number of files in the folder.
MaxFiles == 2

Init ==
    /\ pipeline \in {"daily", "verified"}
    /\ platform \in Platforms
    /\ config \in RunConfigs
    /\ \E names \in SUBSET FolderNames :
          /\ Cardinality(names) <= MaxFiles
          /\ \E book \in [names -> DOMAIN Workbooks] :
                folder = {[name |-> n, book |-> book[n]] : n \in names}
    /\ pc = "start"
    /\ file_paths = <<>>
    /\ idx = 1
    /\ daily_dataframes = <<>>
    /\ notes_dataframes = <<>>
    /\ dataframes = <<>>
    /\ aggregated_daily = NotWritten
    /\ aggregated_notes = NotWritten
    /\ aggregated_data = NotWrittenFrame
    /\ log = <<>>
    /\ outcomes = <<>>
    /\ file_name = <<>>
    /\ parsed = [by |-> "nobody", raised |-> "none", start |-> <<>>, end |-> <<>>,
                 shift |-> <<>>]
    /\ opened = {}
    /\ master_data = NotWritten

Next ==
    \/ Discover
    \/ DailyProcessFile
    \/ DailyExport
    \/ VerifiedProcessFile
    \/ VerifiedExport

Spec == Init /\ [][Next]_vars

\* The interpreter runs the function to its end: a step that can be taken is
\* taken.
FairSpec == Spec /\ WF_vars(Next)

---------------------------------------------------------------------------
(* The aggregator runs with the interpreter's collections                  *)

\* A step of the aggregator, or a collection, which can come at any time.
ScopeNext ==
    \/ Next
    \/ Collect

ScopeSpec == Init /\ [][ScopeNext]_vars

---------------------------------------------------------------------------
(* Single-file runs: the aggregators on a folder that holds one file       *)

SingleInit ==
    /\ pipeline \in {"daily", "verified"}
    /\ platform \in Platforms
    /\ config \in RunConfigs
    /\ \E file \in SingleFiles : folder = {file}
    /\ pc = "start"
    /\ file_paths = <<>>
    /\ idx = 1
    /\ daily_dataframes = <<>>
    /\ notes_dataframes = <<>>
    /\ dataframes = <<>>
    /\ aggregated_daily = NotWritten
    /\ aggregated_notes = NotWritten
    /\ aggregated_data = NotWrittenFrame
    /\ log = <<>>
    /\ outcomes = <<>>
    /\ file_name = <<>>
    /\ parsed = [by |-> "nobody", raised |-> "none", start |-> <<>>, end |-> <<>>,
                 shift |-> <<>>]
    /\ opened = {}
    /\ master_data = NotWritten

SingleSpec == SingleInit /\ [][Next]_vars

---------------------------------------------------------------------------
(* Parser runs: the parsers applied to one file name                       *)

\* The file names of the parser runs: prefix, shift words, date range, suffix.
NamePrefixes == {Chars("processing weights "), Chars("report ")}

ShiftWords ==
    {Chars("1st shift "), Chars("2nd shift "), Chars("3rd shift "), <<>>,
     Chars("1ST SHIFT "), Chars("2Nd Shift "), Chars("3rd shift 1st shift "),
     Chars("3rd shift 2nd shift "), Chars("1stshift "), Chars("4th shift ")}

FewShiftWords == {Chars("1st shift "), <<>>}

DateOf(m, d, y) == Chars(m) \o <<"-">> \o Chars(d) \o <<"-">> \o Chars(y)

StartDateTexts ==
    {DateOf(m, d, y) : m \in {"2", "03", "12", "13"},
                       d \in {"4", "04", "29", "31", "00"},
                       y \in {"24", "23", "99", "2024", "202"}}

EndDateTexts ==
    {DateOf(m, d, y) : m \in {"3", "02"}, d \in {"10", "29"}, y \in {"24", "2023", "245"}}

DateRangeTexts ==
    {a \o Chars(sep) \o b : a \in StartDateTexts, b \in EndDateTexts, sep \in {" to ", " TO "}}
        \cup {<<>>}

FewDateRangeTexts ==
    {<<>>, Chars("03-04-24 to 03-10-24"), Chars("3-4-2024 to 3-10-2024"),
     Chars("03-10-24 to 03-04-24"), Chars("13-04-24 to 03-10-24")}

OddNames ==
    {Chars("report.xlsx"),
     Chars("processing weights 103-04-24 to 03-10-2412.xlsx"),
     Chars("processing weights 3-4-24 to 3-10-24567.xlsx"),
     Chars("processing weights 1-1-1 to 3-4-24 to 3-10-24.xlsx"),
     Chars("processing weights 3-4-0024 to 3-10-0999.xlsx"),
     Chars("processing weights 3rd shift 2nd SHIFT 12-30-68 to 1-5-69.xlsx")}

ParserNames ==
    {p \o w \o r \o Chars(".xlsx") : p \in NamePrefixes, w \in ShiftWords, r \in FewDateRangeTexts}
        \cup {p \o w \o r \o Chars(".xlsx") :
                 p \in NamePrefixes, w \in FewShiftWords, r \in DateRangeTexts}
        \cup OddNames

NotParsed == [by |-> "nobody", raised |-> "none", start |-> NoDates, end |-> NoDates,
              shift |-> <<>>]

\* The state of the aggregator's variables while only a parser runs.
AggregatorIdle ==
    /\ folder = {}
    /\ config = [hourly_rate |-> 24, overhead_multiplier |-> 1, include_shift |-> FALSE]
    /\ file_paths = <<>>
    /\ idx = 1
    /\ daily_dataframes = <<>>
    /\ notes_dataframes = <<>>
    /\ dataframes = <<>>
    /\ aggregated_daily = NotWritten
    /\ aggregated_notes = NotWritten
    /\ aggregated_data = NotWrittenFrame
    /\ log = <<>>
    /\ outcomes = <<>>
    /\ opened = {}
    /\ master_data = NotWritten

ParserInit ==
    /\ pipeline = "parser"
    /\ platform \in Platforms
    /\ pc = "parse"
    /\ file_name \in ParserNames
    /\ parsed = NotParsed
    /\ AggregatorIdle

\* extract_daily_data_from_file, lines 144-146: _parse_shift, then
\* _parse_date_range
ParseDaily ==
    /\ pipeline = "parser"
    /\ pc = "parse"
    /\ \E dates \in {_parse_date_range(file_name, platform)} :
          parsed' = [by |-> "daily", raised |-> dates.raised, start |-> dates.start,
                     end |-> dates.end, shift |-> _parse_shift(file_name)]
    /\ pc' = "parsed"
    /\ UNCHANGED <<opened, master_data>>
    /\ UNCHANGED <<pipeline, platform, folder, config, file_paths, idx, daily_dataframes,
                   notes_dataframes, dataframes, aggregated_daily, aggregated_notes,
                   aggregated_data, log, outcomes, file_name>>

\* extract_data_from_file (verified), lines 72-73: _parse_dates_and_shift
ParseVerified ==
    /\ pipeline = "parser"
    /\ pc = "parse"
    /\ \E r \in {_parse_dates_and_shift(file_name, platform)} :
          parsed' = [by |-> "verified", raised |-> r.raised, start |-> r.start,
                     end |-> r.end, shift |-> r.shift]
    /\ pc' = "parsed"
    /\ UNCHANGED <<opened, master_data>>
    /\ UNCHANGED <<pipeline, platform, folder, config, file_paths, idx, daily_dataframes,
                   notes_dataframes, dataframes, aggregated_daily, aggregated_notes,
                   aggregated_data, log, outcomes, file_name>>

ParserNext == ParseDaily \/ ParseVerified

ParserSpec == ParserInit /\ [][ParserNext]_vars


---------------------------------------------------------------------------
(* Cell runs: the normalizers and the categorizer applied to one cell      *)

\* The cells of the cell runs: missing, numbers, a date, and text that is
\* empty, blank, a numeral, not a numeral, or a comment.
Cells ==
    {NaN, Num(0), Num(7), Num(-3), Num(1000), DateCell(2024, 3, 4)}
        \cup {Txt(""), Txt(" "), Txt("   "), Txt("0"), Txt("7"), Txt(" 7 "), Txt("-3"),
              Txt(" -12"), Txt("007"), Txt("n/a"), Txt("x"), Txt("12 lbs"), Txt("1 2"),
              Txt("--5"), Txt("-"), Txt("7-"), Txt("seven")}
        \cup {Txt("Belt broken - waiting for material"), Txt("waiting for material"),
              Txt("no weights"), Txt("  Ran out of wire  "), Txt("REPAIR filter"),
              Txt("Training new operator"), Txt("prefix of lot 12"),
              Txt("Totals checked - nothing missing"),
              Txt("MISSING count - machine stopped"),
              Txt("not entered - no material"), Txt("Weights Not Entered"),
              Txt("No Material"), Txt("material"), Txt("DOWN")}

NotNormalized(cell, default) ==
    [by |-> "nobody", cell |-> cell, default |-> default, value |-> <<>>]

CellInit ==
    /\ pipeline = "cell"
    /\ platform \in Platforms
    /\ pc = "cell"
    /\ file_name = <<>>
    /\ \E cell \in Cells, default \in {0, 7} : parsed = NotNormalized(cell, default)
    /\ AggregatorIdle

\* _safe_float(value, default) of the cell
SafeFloat ==
    /\ pipeline = "cell"
    /\ pc = "cell"
    /\ parsed' = [parsed EXCEPT !.by = "_safe_float",
                                !.value = _safe_float_default(parsed.cell, parsed.default)]
    /\ pc' = "normalized"
    /\ UNCHANGED <<opened, master_data>>
    /\ UNCHANGED <<pipeline, platform, folder, config, file_paths, idx, daily_dataframes,
                   notes_dataframes, dataframes, aggregated_daily, aggregated_notes,
                   aggregated_data, log, outcomes, file_name>>

\* _safe_str(value) of the cell
SafeStr ==
    /\ pipeline = "cell"
    /\ pc = "cell"
    /\ parsed' = [parsed EXCEPT !.by = "_safe_str", !.value = _safe_str(parsed.cell)]
    /\ pc' = "normalized"
    /\ UNCHANGED <<opened, master_data>>
    /\ UNCHANGED <<pipeline, platform, folder, config, file_paths, idx, daily_dataframes,
                   notes_dataframes, dataframes, aggregated_daily, aggregated_notes,
                   aggregated_data, log, outcomes, file_name>>

\* lines 180 and 245: _categorize_note of the comment of the cell
CategorizeNote ==
    /\ pipeline = "cell"
    /\ pc = "cell"
    /\ parsed' = [parsed EXCEPT !.by = "_categorize_note",
                                !.value = _categorize_note(_safe_str(parsed.cell))]
    /\ pc' = "normalized"
    /\ UNCHANGED <<opened, master_data>>
    /\ UNCHANGED <<pipeline, platform, folder, config, file_paths, idx, daily_dataframes,
                   notes_dataframes, dataframes, aggregated_daily, aggregated_notes,
                   aggregated_data, log, outcomes, file_name>>

CellNext == SafeFloat \/ SafeStr \/ CategorizeNote

CellSpec == CellInit /\ [][CellNext]_vars

---------------------------------------------------------------------------
(* Runs of the two older aggregators                                       *)

ReportInit ==
    /\ pipeline \in {"individual", "weekly"}
    /\ platform \in Platforms
    /\ config \in RunConfigs
    /\ \E names \in SUBSET (ReportNames \cup OtherNames) :
          /\ Cardinality(names) <= MaxFiles
          /\ \E book \in [names -> DOMAIN ReportWorkbooks \cup {"blank", "not a workbook"}] :
                /\ \A n \in names : book[n] \in ReportBooks(n)
                /\ folder = {[name |-> n, book |-> book[n]] : n \in names}
    /\ pc = "start"
    /\ file_paths = <<>>
    /\ idx = 1
    /\ daily_dataframes = <<>>
    /\ notes_dataframes = <<>>
    /\ dataframes = <<>>
    /\ aggregated_daily = NotWritten
    /\ aggregated_notes = NotWritten
    /\ aggregated_data = NotWrittenFrame
    /\ log = <<>>
    /\ outcomes = <<>>
    /\ file_name = <<>>
    /\ parsed = [by |-> "nobody", raised |-> "none", start |-> <<>>, end |-> <<>>,
                 shift |-> <<>>]
    /\ opened = {}
    /\ master_data = NotWritten

ReportNext ==
    \/ ListFolder
    \/ IndividualProcessFile
    \/ IndividualExport
    \/ WeeklyProcessFile
    \/ WeeklyExport

ReportSpec == ReportInit /\ [][ReportNext]_vars

---------------------------------------------------------------------------
(* Properties of the aggregator runs                                       *)

\* how many times x occurs in the list rows
Count(rows, x) == Cardinality({i \in DOMAIN rows : rows[i] = x})

\* the same records, each as many times, in any order
SameRecords(a, b) ==
    /\ Len(a) = Len(b)
    /\ \A x \in Range(a) \cup Range(b) : Count(a, x) = Count(b, x)

\* what each pipeline extracts from the file alone
DailyAlone(file) == DailyExtracted(file, config, platform)

VerifiedAlone(file) == VerifiedExtracted(file, config, platform)

\* the records of the files k.. of file_paths whose extraction alone succeeds
RECURSIVE DailyOfSucceeded(_), NotesOfSucceeded(_), RowsOfSucceeded(_)
DailyOfSucceeded(k) ==
    IF k > Len(file_paths) THEN <<>>
    ELSE (IF DailyAlone(file_paths[k]).raised = "none"
          THEN DailyAlone(file_paths[k]).daily ELSE <<>>) \o DailyOfSucceeded(k + 1)

NotesOfSucceeded(k) ==
    IF k > Len(file_paths) THEN <<>>
    ELSE (IF DailyAlone(file_paths[k]).raised = "none"
          THEN DailyAlone(file_paths[k]).notes ELSE <<>>) \o NotesOfSucceeded(k + 1)

RowsOfSucceeded(k) ==
    IF k > Len(file_paths) THEN <<>>
    ELSE (IF VerifiedAlone(file_paths[k]).raised = "none"
          THEN VerifiedAlone(file_paths[k]).frame.rows ELSE <<>>)
         \o RowsOfSucceeded(k + 1)

\* C1: when a run of either aggregator over a non-empty list of candidate
\* files has ended, the aggregated dataset holds exactly the records of the
\* files whose extraction succeeds, each file's records as extracted from that
\* file alone, whichever of the other files failed.
C1_FailureIsolation ==
    (pc = "done" /\ file_paths # <<>>) =>
        /\ pipeline = "daily" =>
              /\ SameRecords(aggregated_daily.rows, DailyOfSucceeded(1))
              /\ SameRecords(aggregated_notes.rows, NotesOfSucceeded(1))
        /\ pipeline = "verified" => aggregated_data.rows = RowsOfSucceeded(1)

\* a daily run has ended in which a file failed before a later file
\* succeeded, and the records of the later file were written
C1_Witness ==
    /\ pipeline = "daily"
    /\ pc = "done"
    /\ aggregated_daily.written
    /\ aggregated_daily.rows # <<>>
    /\ \E i, j \in DOMAIN outcomes :
          i < j /\ outcomes[i].raised # "none" /\ outcomes[j].raised = "none"

\* the records the aggregator itself logged about the file at the level
AggregatorLogged(name, level) ==
    {k \in DOMAIN log : log[k].file = name /\ log[k].sheet = "" /\ log[k].level = level}

\* the one outcome of the i-th file: succeeded (nothing logged against it),
\* skipped with one warning, or errored with one error record
OneOutcome(i) ==
    LET name == file_paths[i].name
        warnings == Cardinality(AggregatorLogged(name, "warning"))
        errors == Cardinality(AggregatorLogged(name, "error"))
    IN  /\ outcomes[i].file = name
        /\ Cardinality(AggregatorLogged(name, "info")) = 1
        /\ CASE outcomes[i].raised = "none" -> warnings = 0 /\ errors = 0
             [] outcomes[i].raised \in {"ValueError", "EmptyDataError"} ->
                   warnings = 1 /\ errors = 0
             [] OTHER -> warnings = 0 /\ errors = 1

\* at the export decision every discovered file has been attempted once, in
\* sorted file-name order, with one outcome
AttemptedOnceInOrder ==
    (pc \in {"export", "done"} /\ file_paths # <<>>) =>
        /\ Len(outcomes) = Len(file_paths)
        /\ \A i \in DOMAIN file_paths : OneOutcome(i)
        /\ \A i, j \in DOMAIN file_paths :
              i < j => StrLess(file_paths[i].name, file_paths[j].name)
        /\ {file_paths[i] : i \in DOMAIN file_paths}
              = {f \in folder : GlobMatches(f.name) /\ ~IsLockFile(f.name)}

\* C2: the batch run always completes: once the loop over the discovered
\* files has begun it reaches the export decision, at which every file has
\* been attempted exactly once in sorted file-name order and has exactly one
\* outcome (succeeded, skipped with a warning, errored), and the run ends.
C2_BatchCompletes ==
    /\ []AttemptedOnceInOrder
    /\ (pc = "loop") ~> (pc = "export")
    /\ <>(pc = "done")

\* a verified run stands at the export decision after a file failed and a
\* file succeeded
C2_Witness ==
    /\ pipeline = "verified"
    /\ pc = "export"
    /\ \E i, j \in DOMAIN outcomes :
          outcomes[i].raised # "none" /\ outcomes[j].raised = "none"

\* a <= b in the order of text
StrLeq(a, b) == a = b \/ StrLess(a, b)

\* the key (date, shift, machine) of the first is not after that of the second
KeyLeq(a, b) ==
    \/ StrLess(a[1], b[1])
    \/ a[1] = b[1] /\ StrLess(a[2], b[2])
    \/ a[1] = b[1] /\ a[2] = b[2] /\ StrLeq(a[3], b[3])

DailyKey(record) == <<record.Date, record.Shift, record.Machine_Name>>

InDailyKeyOrder(rows) ==
    \A i \in 1..(Len(rows) - 1) : KeyLeq(DailyKey(rows[i]), DailyKey(rows[i + 1]))

\* C3: the daily dataset and the notes dataset that aggregate_daily_folder
\* exports are each in non-decreasing order of (Date, Shift, Machine_Name).
C3_DailyExportsSorted ==
    /\ aggregated_daily.written => InDailyKeyOrder(aggregated_daily.rows)
    /\ aggregated_notes.written => InDailyKeyOrder(aggregated_notes.rows)

\* both datasets were exported and sorting changed the order of the
\* concatenated daily records
C3_Witness ==
    /\ aggregated_daily.written
    /\ aggregated_daily.rows # concat(daily_dataframes)
    /\ aggregated_notes.written
    /\ Len(aggregated_notes.rows) >= 2

\* the key of a row of the verified dataset: Start Date, Shift (when the
\* column is there), Machine Name
VerifiedKey(row) == <<row[1], IF Len(row) >= 12 THEN row[12] ELSE <<>>, row[3]>>

\* C4: the dataset the verified aggregate_folder exports is sorted by
\* (Start Date, Shift, Machine Name): the key of a row is not after the key
\* of the next row.
C4_VerifiedExportSorted ==
    aggregated_data.written =>
        \A i \in 1..(Len(aggregated_data.rows) - 1) :
            KeyLeq(VerifiedKey(aggregated_data.rows[i]),
                   VerifiedKey(aggregated_data.rows[i + 1]))

Logged(level, event) ==
    \E k \in DOMAIN log : log[k].level = level /\ log[k].event = event

\* C5: an aggregate file is written only at the export decision and exactly
\* when a file contributed records, and is then not empty; when no file
\* contributed, nothing is written and the no-data message is logged.
C5_NoExportWithoutData ==
    /\ pc # "done" =>
          ~aggregated_daily.written /\ ~aggregated_notes.written
              /\ ~aggregated_data.written
    /\ (pc = "done" /\ file_paths # <<>> /\ pipeline = "daily") =>
          /\ aggregated_daily.written <=>
                \E i \in DOMAIN file_paths :
                    /\ DailyAlone(file_paths[i]).raised = "none"
                    /\ DailyAlone(file_paths[i]).daily # <<>>
          /\ aggregated_daily.written => aggregated_daily.rows # <<>>
          /\ ~aggregated_daily.written <=> Logged("warning", "No daily data aggregated.")
          /\ aggregated_notes.written <=>
                \E i \in DOMAIN file_paths :
                    /\ DailyAlone(file_paths[i]).raised = "none"
                    /\ DailyAlone(file_paths[i]).notes # <<>>
          /\ aggregated_notes.written => aggregated_notes.rows # <<>>
          /\ ~aggregated_notes.written <=> Logged("info", "No supervisor notes found.")
    /\ (pc = "done" /\ file_paths # <<>> /\ pipeline = "verified") =>
          /\ aggregated_data.written <=>
                \E i \in DOMAIN file_paths : VerifiedAlone(file_paths[i]).raised = "none"
          /\ aggregated_data.written => aggregated_data.rows # <<>>
          /\ ~aggregated_data.written <=>
                Logged("warning", "No data aggregated; check the input files.")

\* a daily run ended without an export although a file was extracted
\* without error: the file held no record
C5_Witness ==
    /\ pipeline = "daily"
    /\ pc = "done"
    /\ ~aggregated_daily.written
    /\ Logged("warning", "No daily data aggregated.")
    /\ \E i \in DOMAIN outcomes : outcomes[i].raised = "none"

\* n digits at position p of s
DigitsAt(s, p, n) == p + n - 1 <= Len(s) /\ \A i \in 0..(n - 1) : IsDigit(s[p + i])

\* the lengths <<a, b, c>> of the digit runs of a date (one or two digits,
\* "-", one or two digits, "-", two to four digits) that begins at position
\* p of s
DateFieldsFrom(s, p) ==
    UNION {UNION {{<<a, b, c>> : c \in {c \in 2..4 : DigitsAt(s, p + a + b + 2, c)}} :
                     b \in {b \in 1..2 : /\ DigitsAt(s, p + a + 1, b)
                                          /\ MatchesAt(s, <<"-">>, p + a + b + 1)}} :
              a \in {a \in 1..2 : DigitsAt(s, p, a) /\ MatchesAt(s, <<"-">>, p + a)}}

DateLen(g) == g[1] + g[2] + g[3] + 2

\* the date ranges `date to date` that begin at position p of s, each as the
\* lengths of the fields of its two dates
RangesAt(s, p) ==
    UNION {{<<g, h>> : h \in DateFieldsFrom(s, p + DateLen(g) + 4)} :
              g \in {g \in DateFieldsFrom(s, p) :
                        MatchesAt(s, <<" ", "t", "o", " ">>, p + DateLen(g))}}

\* the name contains a date range `M-D-YY to M-D-YY`
HasDateRange(s) == \E p \in 1..Len(s) : RangesAt(s, p) # {}

\* C6: a file whose name contains no date range makes the parser raise
\* (ValueError) instead of giving dates; the aggregator logs one skip warning
\* for it, keeps no frame of it, and goes on with the files after it.
C6_NoDateRangeSkipped ==
    /\ \A i \in DOMAIN outcomes :
          ~HasDateRange(outcomes[i].file) =>
              /\ outcomes[i].raised = "ValueError"
              /\ Cardinality({k \in DOMAIN log :
                                 /\ log[k].file = outcomes[i].file
                                 /\ log[k].level = "warning"
                                 /\ log[k].event = "Skipping"}) = 1
    /\ Len(daily_dataframes) + Len(dataframes)
          <= Cardinality({i \in DOMAIN outcomes : outcomes[i].raised = "none"})
    /\ pc = "loop" => idx = Len(outcomes) + 1 /\ idx <= Len(file_paths)
    /\ (pc \in {"export", "done"} /\ file_paths # <<>>) =>
          Len(outcomes) = Len(file_paths)

\* a file without a date range was skipped and a later file was extracted
C6_Witness ==
    \E i, j \in DOMAIN outcomes :
        /\ i < j
        /\ ~HasDateRange(outcomes[i].file)
        /\ outcomes[i].raised = "ValueError"
        /\ outcomes[j].raised = "none"
        /\ Len(daily_dataframes) + Len(dataframes) = 1

\* the records the daily pipeline has emitted and kept, and those it exported
EmittedDaily ==
    UNION {Range(daily_dataframes[k]) : k \in DOMAIN daily_dataframes}
        \cup Range(aggregated_daily.rows)

\* C10: every record the daily pipeline emits is of a row whose input item
\* is not blank and does not contain "totals" in any letter case, and of
\* which a number among machine hours, man hours and actual output is not
\* zero or the operator is not blank.
C10_EmittedRowsQualify ==
    \A record \in EmittedDaily :
        /\ \E i \in DOMAIN record.Input_Item : record.Input_Item[i] # " "
        /\ ~\E p \in DOMAIN record.Input_Item :
              \A i \in 1..6 :
                  /\ p + i - 1 <= Len(record.Input_Item)
                  /\ ToLowerChar[record.Input_Item[p + i - 1]] = Chars("totals")[i]
        /\ \/ record.Machine_Hours # 0
           \/ record.Man_Hours # 0
           \/ record.Actual_Output # 0
           \/ \E i \in DOMAIN record.Operator : record.Operator[i] # " "

\* the five records of a workbook that also holds a totals row, a subtotals
\* row, a row with a blank input item and an empty row were kept
C10_Witness ==
    /\ pipeline = "daily"
    /\ \E i \in DOMAIN outcomes :
          outcomes[i].raised = "none" /\ file_paths[i].book = "full"
    /\ \E k \in DOMAIN daily_dataframes : Len(daily_dataframes[k]) = 5

---------------------------------------------------------------------------
(* Properties of the parser runs                                           *)

\* the fields of the first date range are preferred as re.search prefers
\* them: the longer run of digits at the first field where they differ
Greedier(x, y) ==
    \E k \in 1..6 :
        /\ \A j \in 1..(k - 1) : (x[1] \o x[2])[j] = (y[1] \o y[2])[j]
        /\ (x[1] \o x[2])[k] > (y[1] \o y[2])[k]

\* the date range of the name: the leftmost one, its digit runs the longest
\* possible from left to right; [p, g, h], p its position, g and h the
\* lengths of the fields of its two dates
MatchedRange(s) ==
    LET p0 == MinOf({p \in 1..Len(s) : RangesAt(s, p) # {}})
        best == CHOOSE x \in RangesAt(s, p0) :
                    \A y \in RangesAt(s, p0) : x = y \/ Greedier(x, y)
    IN  [p |-> p0, g |-> best[1], h |-> best[2]]

\* the date written M-D-YY or M-D-YYYY at position p of s with fields of
\* the lengths g: its month, day and year, and whether it is written in one
\* of the two forms and is a date of the calendar
DateWritten(s, p, g) ==
    LET month == DigitsToNat(SubSeq(s, p, p + g[1] - 1))
        day   == DigitsToNat(SubSeq(s, p + g[1] + 1, p + g[1] + g[2]))
        digits == DigitsToNat(SubSeq(s, p + g[1] + g[2] + 2, p + DateLen(g) - 1))
        year  == IF g[3] = 4 THEN digits
                 ELSE IF digits <= 68 THEN 2000 + digits ELSE 1900 + digits
    IN  [y |-> year, m |-> month, d |-> day,
         valid |-> /\ g[3] \in {2, 4}
                   /\ year >= 1
                   /\ month \in 1..12
                   /\ day >= 1
                   /\ day <= DaysInMonth(year, month)]

\* YYYY-MM-DD
YearMonthDay(date) ==
    PadNat(date.y, 4) \o <<"-">> \o PadNat(date.m, 2) \o <<"-">> \o PadNat(date.d, 2)

ExampleName == Chars("processing weights 1st shift 03-04-24 to 03-10-24.xlsx")

\* C7: for a name with a date range, the parser returns the two dates in
\* YYYY-MM-DD form when both are dates of the calendar written M-D-YY or
\* M-D-YYYY, and raises when a matched date parses under neither format;
\* the example name gives shift 1st, start 2024-03-04, end 2024-03-10.
C7_DatesParsed ==
    (pc = "parsed" /\ HasDateRange(file_name)) =>
        LET found == MatchedRange(file_name)
            first == DateWritten(file_name, found.p, found.g)
            second == DateWritten(file_name, found.p + DateLen(found.g) + 4, found.h)
        IN  /\ (first.valid /\ second.valid) =>
                  /\ parsed.raised = "none"
                  /\ parsed.start = YearMonthDay(first)
                  /\ parsed.end = YearMonthDay(second)
            /\ ~(first.valid /\ second.valid) => parsed.raised = "ValueError"
            /\ file_name = ExampleName =>
                  /\ parsed.shift = Chars("1st")
                  /\ parsed.start = Chars("2024-03-04")
                  /\ parsed.end = Chars("2024-03-10")

\* the numbers <<year, month, day>> of a text year-month-day
RECURSIVE SplitAtDash(_)
SplitAtDash(text) ==
    IF \A i \in DOMAIN text : text[i] # "-" THEN <<DigitsToNat(text)>>
    ELSE LET at == MinOf({i \in DOMAIN text : text[i] = "-"})
         IN  <<DigitsToNat(SubSeq(text, 1, at - 1))>>
                 \o SplitAtDash(SubSeq(text, at + 1, Len(text)))

\* the first date is not after the second
NotAfter(a, b) ==
    \/ a[1] < b[1]
    \/ a[1] = b[1] /\ a[2] < b[2]
    \/ a[1] = b[1] /\ a[2] = b[2] /\ a[3] <= b[3]

\* C8: when the parser accepts a name, the start of the period is not after
\* its end.
C8_StartNotAfterEnd ==
    (pc = "parsed" /\ parsed.raised = "none") =>
        NotAfter(SplitAtDash(parsed.start), SplitAtDash(parsed.end))

\* the name contains the word in some letter case
HasWord(name, word) ==
    \E p \in 1..Len(name) :
        /\ p + Len(word) - 1 <= Len(name)
        /\ \A i \in DOMAIN word : ToLowerChar[name[p + i - 1]] = word[i]

\* C9: for every name the parsers give a shift, whether or not the dates
\* parse: 1st, 2nd or 3rd for the first of "1st shift", "2nd shift",
\* "3rd shift" (in that precedence, in any letter case) the name contains,
\* and unspecified when it contains none.
C9_ShiftParsed ==
    pc = "parsed" =>
        /\ parsed.shift \in {Chars("1st"), Chars("2nd"), Chars("3rd"), Chars("unspecified")}
        /\ parsed.shift =
              IF HasWord(file_name, Chars("1st shift")) THEN Chars("1st")
              ELSE IF HasWord(file_name, Chars("2nd shift")) THEN Chars("2nd")
              ELSE IF HasWord(file_name, Chars("3rd shift")) THEN Chars("3rd")
              ELSE Chars("unspecified")

\* a name with "2Nd Shift" in mixed case and no date range was given the
\* shift 2nd while the dates raised
C9_Witness ==
    /\ pc = "parsed"
    /\ StrIn(Chars("2Nd Shift"), file_name)
    /\ parsed.shift = Chars("2nd")
    /\ parsed.raised = "ValueError"

---------------------------------------------------------------------------
(* Properties of the single-file runs                                      *)

\* the file of the folder, its workbook, and whether the run has extracted it
TheFile == CHOOSE f \in folder : TRUE

TheWorkbook == (Workbooks @@ MoreWorkbooks)[TheFile.book]

Extracted == idx = 2 /\ Len(outcomes) = 1

\* the daily records and the notes taken from the file
TheDailyRecords == IF daily_dataframes = <<>> THEN <<>> ELSE daily_dataframes[1]

TheNotes == IF notes_dataframes = <<>> THEN <<>> ELSE notes_dataframes[1]

\* the emission invariant on the normalized values of a row
Qualifies(row) ==
    /\ row.input_item # <<>>
    /\ ~HasWord(row.input_item, Chars("totals"))
    /\ \/ row.machine_hours # 0
       \/ row.man_hours # 0
       \/ row.actual_output # 0
       \/ row.operator # <<>>

\* the daily sheets of the workbook that have a date, as indices of DAILY_SHEETS
DatedSheets ==
    {s \in DOMAIN DAILY_SHEETS :
        /\ HasSheet(TheWorkbook, DAILY_SHEETS[s])
        /\ _extract_date_from_sheet(SheetNamed(TheWorkbook, DAILY_SHEETS[s]), platform) # <<>>}

\* the rows <<sheet, machine, row index>> of the workbook that are to yield a
\* record: the sheet has a date, the range of the machine fits in the grid,
\* the row is in the range and satisfies the emission invariant
QualifyingRows ==
    UNION {UNION {{<<s, k, r>> :
                      r \in {r \in MACHINE_DATA_RANGES[k].start_row ..
                                    (MACHINE_DATA_RANGES[k].end_row - 1) :
                                Qualifies(DailyRowValues(
                                    SheetNamed(TheWorkbook, DAILY_SHEETS[s]), r))}} :
                  k \in {k \in DOMAIN MACHINE_DATA_RANGES :
                            SheetNamed(TheWorkbook, DAILY_SHEETS[s]).nrows
                                >= MACHINE_DATA_RANGES[k].end_row}} :
           s \in DatedSheets}

\* row a is read before row b
ReadBefore(a, b) ==
    \/ a[1] < b[1]
    \/ a[1] = b[1] /\ a[2] < b[2]
    \/ a[1] = b[1] /\ a[2] = b[2] /\ a[3] < b[3]

\* the place of the record of a row among the records of rows
PlaceAmong(rows, at) == 1 + Cardinality({b \in rows : ReadBefore(b, at)})

\* C11: every qualifying row of the daily pipeline yields exactly one
\* record, in the order the rows are read: the records of a file are as many
\* as its qualifying rows, and the record at the place of a row carries the
\* sheet's date, the sheet name as day of week, the file's shift and period,
\* the machine's name and the values of that row, whatever rows follow it.
C11_OneRecordPerQualifyingRow ==
    (pipeline = "daily" /\ Extracted /\ outcomes[1].raised = "none") =>
        /\ Len(TheDailyRecords) = Cardinality(QualifyingRows)
        /\ \A at \in QualifyingRows :
              LET record == TheDailyRecords[PlaceAmong(QualifyingRows, at)]
                  data == SheetNamed(TheWorkbook, DAILY_SHEETS[at[1]])
                  row == DailyRowValues(data, at[3])
                  period == _parse_date_range(TheFile.name, platform)
              IN  /\ record.Date = _extract_date_from_sheet(data, platform)
                  /\ record.Day_of_Week = DAILY_SHEETS[at[1]]
                  /\ record.Shift = _parse_shift(TheFile.name)
                  /\ record.Week_Start = period.start
                  /\ record.Week_End = period.end
                  /\ record.Machine_Name = MACHINE_DATA_RANGES[at[2]].machine
                  /\ record.Input_Item = row.input_item
                  /\ record.Operator = row.operator
                  /\ record.Machine_Hours = row.machine_hours
                  /\ record.Man_Hours = row.man_hours
                  /\ record.Actual_Output = row.actual_output

\* the workbook "flags" gave nine records: seven of Mon and two of Wed, the
\* last one from a row that holds an operator and no number
C11_Witness ==
    /\ pipeline = "daily"
    /\ pc = "done"
    /\ TheFile.book = "flags"
    /\ Len(TheDailyRecords) = 9
    /\ TheDailyRecords[9].Operator = Chars("Cy")
    /\ TheDailyRecords[9].Day_of_Week = "Wed"

\* the rows of the weekly frame taken from the file
TheWeeklyRows == IF dataframes = <<>> THEN <<>> ELSE dataframes[1].rows

\* a cell that is missing or holds nothing but blanks
BlankCell(cell) == cell.t = "nan" \/ (cell.t = "str" /\ StrStrip(cell.s) = <<>>)

\* C12: the weekly/verified pipeline skips the rows that fail the emission
\* invariant: no row of the frame comes from a grid row with no machine
\* hours, no man hours, no output and a blank product (the weekly sheet has
\* no operator column).
C12_VerifiedSkipsEmptyRows ==
    (pipeline = "verified" /\ Extracted) =>
        \A i \in DOMAIN TheWeeklyRows :
            ~(/\ TheWeeklyRows[i][4] = 0
              /\ TheWeeklyRows[i][5] = 0
              /\ TheWeeklyRows[i][7] = 0
              /\ BlankCell(TheWeeklyRows[i][6]))

\* the quotient q is a / b when b > 0, and 0 when b = 0; it has no zero
\* denominator
GuardedQuotient(q, a, b) ==
    /\ q.den # 0
    /\ b > 0 => q.num * b = a * q.den
    /\ b = 0 => q.num = 0
    /\ b <= 0 => q.den = 1

\* C13: in every record of both pipelines output per hour is output /
\* machine hours when machine hours > 0 and else 0, labor cost is man hours *
\* hourly_rate, total expense is labor cost * overhead_multiplier, cost per
\* pound is total expense / output when output > 0 and 0 when output is 0,
\* no quotient has a zero denominator, and the rate and the multiplier are
\* those of the run for every record.
C13_DerivedMetrics ==
    Extracted =>
        /\ \A i \in DOMAIN TheDailyRecords :
              LET record == TheDailyRecords[i]
              IN  /\ GuardedQuotient(record.Output_per_Hour, record.Actual_Output,
                                     record.Machine_Hours)
                  /\ record.Machine_Hours <= 0 => record.Output_per_Hour.num = 0
                  /\ record.Labor_Cost = record.Man_Hours * config.hourly_rate
                  /\ record.Total_Expense = record.Labor_Cost * config.overhead_multiplier
                  /\ GuardedQuotient(record.Cost_per_Pound, record.Total_Expense,
                                     record.Actual_Output)
        /\ \A i \in DOMAIN TheWeeklyRows :
              LET row == TheWeeklyRows[i]
              IN  /\ GuardedQuotient(row[8], row[7], row[4])
                  /\ row[4] <= 0 => row[8].num = 0
                  /\ row[9] = row[5] * config.hourly_rate
                  /\ row[10] = row[9] * config.overhead_multiplier
                  /\ GuardedQuotient(row[11], row[10], row[7])

\* at the rate 30 and the multiplier 2 the workbook "flags" gave a record
\* without machine hours (rate 0) and one with 5 machine hours, 10 man hours
\* and 600 lbs: 600 / 5 per hour, labor 300, expense 600, 600 / 600 a pound
C13_Witness ==
    /\ pipeline = "daily"
    /\ pc = "done"
    /\ TheFile.book = "flags"
    /\ config.hourly_rate = 30
    /\ Len(TheDailyRecords) = 9
    /\ TheDailyRecords[2].Machine_Hours = 0
    /\ TheDailyRecords[2].Actual_Output = 50
    /\ TheDailyRecords[2].Output_per_Hour = [num |-> 0, den |-> 1]
    /\ TheDailyRecords[7].Output_per_Hour = [num |-> 600, den |-> 5]
    /\ TheDailyRecords[7].Labor_Cost = 300
    /\ TheDailyRecords[7].Total_Expense = 600
    /\ TheDailyRecords[7].Cost_per_Pound = [num |-> 600, den |-> 600]

\* 1 when the number is positive, else 0
Positive(n) == IF n > 0 THEN 1 ELSE 0

\* C14: the Data_Quality_Score of every daily record is in 0..100, is
\* 25 for machine hours > 0, plus 25 for man hours > 0, plus 40 for output
\* > 0, plus 10 when machine hours > 0 exactly when output > 0, and is 100
\* only when the three are > 0.
C14_QualityScore ==
    Extracted =>
        \A i \in DOMAIN TheDailyRecords :
            LET record == TheDailyRecords[i]
                score == record.Data_Quality_Score
            IN  /\ score \in 0..100
                /\ score = 25 * Positive(record.Machine_Hours)
                              + 25 * Positive(record.Man_Hours)
                              + 40 * Positive(record.Actual_Output)
                              + 10 * (IF Positive(record.Machine_Hours)
                                            = Positive(record.Actual_Output)
                                      THEN 1 ELSE 0)
                /\ score = 100 =>
                      /\ record.Machine_Hours > 0
                      /\ record.Man_Hours > 0
                      /\ record.Actual_Output > 0

\* the records of the workbook "flags" have the scores of its rows 5..11:
\* 35, 40, 65, 50, 25, 75, 100, and the two of Wed 100 and 10
C14_Witness ==
    /\ pipeline = "daily"
    /\ pc = "done"
    /\ TheFile.book = "flags"
    /\ [i \in DOMAIN TheDailyRecords |-> TheDailyRecords[i].Data_Quality_Score]
           = <<35, 40, 65, 50, 25, 75, 100, 100, 10>>

\* the daily records that have a comment, as places in the records
Commented == {i \in DOMAIN TheDailyRecords : TheDailyRecords[i].Comment # <<>>}

\* the qualifying rows whose comment cell holds more than blanks
CommentedRows ==
    {at \in QualifyingRows :
        ~BlankCell(CellAt(SheetNamed(TheWorkbook, DAILY_SHEETS[at[1]]), at[3], COL_COMMENT))}

\* C16: the notes of a file correspond one to one, in order, to its daily
\* records with a comment: each such record has one note with its date,
\* shift, machine, operator and text and a category; a record of a row whose
\* comment cell is missing or blank has no comment and no note; a row that
\* fails the emission invariant has no note whatever its comment.
C16_NotesMatchCommentedRecords ==
    (pipeline = "daily" /\ Extracted /\ outcomes[1].raised = "none") =>
        /\ Len(TheNotes) = Cardinality(Commented)
        /\ Len(TheNotes) = Cardinality(CommentedRows)
        /\ \A i \in Commented :
              LET note == TheNotes[1 + Cardinality({j \in Commented : j < i})]
                  record == TheDailyRecords[i]
              IN  /\ note.Date = record.Date
                  /\ note.Shift = record.Shift
                  /\ note.Machine_Name = record.Machine_Name
                  /\ note.Operator = record.Operator
                  /\ note.Note = record.Comment
                  /\ note.Category # <<>>
        /\ \A at \in QualifyingRows \ CommentedRows :
              TheDailyRecords[PlaceAmong(QualifyingRows, at)].Comment = <<>>

\* the workbook "flags" gave nine records and six notes: none for the
\* records without a comment or with a blank one, none for the two rows
\* with a comment that are not emitted
C16_Witness ==
    /\ pipeline = "daily"
    /\ pc = "done"
    /\ TheFile.book = "flags"
    /\ Len(TheDailyRecords) = 9
    /\ [i \in DOMAIN TheNotes |-> TheNotes[i].Category]
           = <<Chars("operational"), Chars("downtime"), Chars("downtime"),
               Chars("quality"), Chars("material"), Chars("downtime")>>

\* text with no blank at either end
Trimmed(text) == StrStrip(text) = text

\* C18: no record of either pipeline holds a missing value or a cell as it
\* was read: the numbers of a daily record are numbers and its texts are
\* trimmed; the numbers of a weekly row are numbers and its product, which
\* the row holds as the cell's value, is text, trimmed, and not missing.
C18_RecordsNormalized ==
    Extracted =>
        /\ \A i \in DOMAIN TheDailyRecords :
              LET record == TheDailyRecords[i]
              IN  /\ \A n \in {record.Actual_Input, record.Actual_Output,
                                record.Machine_Hours, record.Man_Hours} : n \in Int
                  /\ \A text \in {record.Input_Item, record.Output_Product,
                                   record.Operator, record.Comment} : Trimmed(text)
        /\ \A i \in DOMAIN TheWeeklyRows :
              LET row == TheWeeklyRows[i]
              IN  /\ \A n \in {row[4], row[5], row[7]} : n \in Int
                  /\ row[6].t # "nan"
                  /\ row[6].t = "str"
                  /\ Trimmed(row[6].s)

\* the daily sheets of the workbook, as indices of DAILY_SHEETS
DailySheets == {s \in DOMAIN DAILY_SHEETS : HasSheet(TheWorkbook, DAILY_SHEETS[s])}

\* the records of a sheet and a machine
RecordsOf(s, k) ==
    {i \in DOMAIN TheDailyRecords :
        /\ TheDailyRecords[i].Day_of_Week = DAILY_SHEETS[s]
        /\ TheDailyRecords[i].Machine_Name = MACHINE_DATA_RANGES[k].machine}

\* C19: in the daily pipeline a grid with fewer rows or columns than the
\* layout asks for does not fail the file: when every sheet of the workbook
\* can be read the extraction raises nothing; a machine whose end_row is
\* beyond the rows of the sheet has no record of that sheet, and a machine
\* whose end_row is within them has one record for each qualifying row of
\* start_row..end_row-1; a sheet narrower than the configured columns has
\* no record.
C19_SmallGridsNotFatal ==
    (pipeline = "daily" /\ Extracted /\ TheWorkbook.opens = "ok") =>
        /\ (\A s \in DailySheets :
                SheetNamed(TheWorkbook, DAILY_SHEETS[s]).parse = "ok")
              => outcomes[1].raised = "none"
        /\ outcomes[1].raised = "none" =>
              \A s \in DailySheets : \A k \in DOMAIN MACHINE_DATA_RANGES :
                  LET data == SheetNamed(TheWorkbook, DAILY_SHEETS[s])
                      range == MACHINE_DATA_RANGES[k]
                  IN  /\ data.nrows < range.end_row => RecordsOf(s, k) = {}
                      /\ data.ncols <= COL_DATE => RecordsOf(s, k) = {}
                      /\ (data.nrows >= range.end_row /\ s \in DatedSheets) =>
                            Cardinality(RecordsOf(s, k)) =
                                Cardinality({r \in range.start_row..(range.end_row - 1) :
                                                Qualifies(DailyRowValues(data, r))})

\* the workbook "flags" was extracted: its Wed sheet of 13 rows gave the two
\* records of the first machine, whose end_row is 13, and none of the
\* others; its Tue sheet without cells gave none
C19_Witness ==
    /\ pipeline = "daily"
    /\ pc = "done"
    /\ TheFile.book = "flags"
    /\ outcomes[1].raised = "none"
    /\ Cardinality(RecordsOf(3, 1)) = 2
    /\ \A k \in 2..Len(MACHINE_DATA_RANGES) : RecordsOf(3, k) = {}
    /\ \A k \in DOMAIN MACHINE_DATA_RANGES : RecordsOf(2, k) = {}

\* the workbook opens and its weekly sheet is read
WeeklySheetRead ==
    /\ TheWorkbook.opens = "ok"
    /\ HasSheet(TheWorkbook, WeeklyReport)
    /\ SheetNamed(TheWorkbook, WeeklyReport).parse = "ok"

\* C20: in the weekly/verified pipeline a Weekly Report grid of fewer than
\* 74 rows or fewer than 7 columns fails the file with the layout error
\* before a row is read: the aggregator logs the warning that it skips the
\* file, takes no frame and no row from it, and writes nothing for it; a
\* grid of at least 74 rows and 7 columns is extracted.
C20_SmallWeeklyGridFails ==
    (pipeline = "verified" /\ Extracted /\ WeeklySheetRead) =>
        LET data == SheetNamed(TheWorkbook, WeeklyReport)
        IN  /\ (data.nrows < 74 \/ data.ncols < 7) =>
                  /\ outcomes[1].raised = "ValueError"
                  /\ dataframes = <<>>
                  /\ \E k \in DOMAIN log :
                        /\ log[k].level = "warning"
                        /\ log[k].event = "Skipping"
                        /\ log[k].file = TheFile.name
                  /\ ~aggregated_data.written
            /\ (data.nrows >= 74 /\ data.ncols >= 7) =>
                  /\ outcomes[1].raised = "none"
                  /\ Len(dataframes) = 1

\* the weekly sheet of 74 rows and 6 columns of the workbook "flags" was
\* refused and the run ended without writing
C20_Witness ==
    /\ pipeline = "verified"
    /\ pc = "done"
    /\ TheFile.book = "flags"
    /\ outcomes[1].raised = "ValueError"
    /\ dataframes = <<>>
    /\ ~aggregated_data.written

\* the number of rows of the ranges k.. of the layout
RECURSIVE RowsInRanges(_)
RowsInRanges(k) ==
    IF k > Len(MACHINE_DATA_RANGES) THEN 0
    ELSE MACHINE_DATA_RANGES[k].end_row - MACHINE_DATA_RANGES[k].start_row
             + RowsInRanges(k + 1)

\* the records of a sheet
RecordsOfSheet(s) ==
    {i \in DOMAIN TheDailyRecords : TheDailyRecords[i].Day_of_Week = DAILY_SHEETS[s]}

\* C27: the machine row ranges are non-empty, strictly ascending and
\* pairwise disjoint half-open intervals [start_row, end_row) of 46 rows in
\* all, so no grid row belongs to two machines; in every extracted sheet a
\* machine has at most one record for each qualifying row of start_row ..
\* end_row - 1, the row end_row giving it none, and the sheet has at most 46
\* records.
C27_RangesDisjoint ==
    /\ \A k \in DOMAIN MACHINE_DATA_RANGES :
          MACHINE_DATA_RANGES[k].start_row < MACHINE_DATA_RANGES[k].end_row
    /\ \A k \in 1..(Len(MACHINE_DATA_RANGES) - 1) :
          MACHINE_DATA_RANGES[k].end_row <= MACHINE_DATA_RANGES[k + 1].start_row
    /\ \A r \in 0..MaxOf({MACHINE_DATA_RANGES[k].end_row : k \in DOMAIN MACHINE_DATA_RANGES}) :
          Cardinality({k \in DOMAIN MACHINE_DATA_RANGES :
                          /\ MACHINE_DATA_RANGES[k].start_row <= r
                          /\ r < MACHINE_DATA_RANGES[k].end_row}) <= 1
    /\ RowsInRanges(1) = 46
    /\ (pipeline = "daily" /\ Extracted /\ outcomes[1].raised = "none") =>
          \A s \in DatedSheets :
              /\ Cardinality(RecordsOfSheet(s)) <= 46
              /\ \A k \in DOMAIN MACHINE_DATA_RANGES :
                    LET data == SheetNamed(TheWorkbook, DAILY_SHEETS[s])
                        range == MACHINE_DATA_RANGES[k]
                    IN  Cardinality(RecordsOf(s, k)) <=
                            Cardinality({r \in range.start_row..(range.end_row - 1) :
                                            Qualifies(DailyRowValues(data, r))})

\* the Mon sheet of the workbook "full" holds the same full row at row 4 and
\* at row 13, the end_row of the first machine: the machine has one record
C27_Witness ==
    /\ pipeline = "daily"
    /\ Extracted
    /\ TheFile.book = "full"
    /\ outcomes[1].raised = "none"
    /\ Qualifies(DailyRowValues(SheetNamed(TheWorkbook, "Mon"),
                                MACHINE_DATA_RANGES[1].end_row))
    /\ Cardinality(RecordsOf(1, 1)) = 1

\* the rows <<machine, row index>> of the weekly layout
WeeklyLayoutRows ==
    {kr \in (DOMAIN VERIFIED_MACHINE_DATA_RANGES) \X (0..min_rows_needed) :
        /\ VERIFIED_MACHINE_DATA_RANGES[kr[1]].start_row <= kr[2]
        /\ kr[2] < VERIFIED_MACHINE_DATA_RANGES[kr[1]].end_row}

\* the row of the layout that comes at place i: the machines in the order of
\* the table, the rows of a machine ascending
WeeklyRowAt(i) ==
    CHOOSE at \in WeeklyLayoutRows :
        i = 1 + Cardinality({b \in WeeklyLayoutRows :
                                \/ b[1] < at[1]
                                \/ b[1] = at[1] /\ b[2] < at[2]})

\* C29: in the weekly/verified pipeline a file whose name parses, whose
\* workbook holds a Weekly Report sheet and whose grid has at least 74 rows
\* and 7 columns yields exactly 46 rows, whatever its cells hold: the row
\* at place i carries the name of the machine and the normalized hours and
\* output of the grid row that comes at place i of the layout.
C29_WeeklyRowCount ==
    (pipeline = "verified" /\ Extracted /\ WeeklySheetRead
        /\ SheetNamed(TheWorkbook, WeeklyReport).nrows >= 74
        /\ SheetNamed(TheWorkbook, WeeklyReport).ncols >= 7) =>
        /\ outcomes[1].raised = "none"
        /\ Len(TheWeeklyRows) = 46
        /\ \A i \in 1..46 :
              LET at == WeeklyRowAt(i)
                  data == SheetNamed(TheWorkbook, WeeklyReport)
                  row == TheWeeklyRows[i]
              IN  /\ row[3] = VERIFIED_MACHINE_DATA_RANGES[at[1]].machine
                  /\ row[4] = _safe_float(CellAt(data, at[2], 1))
                  /\ row[5] = _safe_float(CellAt(data, at[2], 2))
                  /\ row[7] = _safe_float(CellAt(data, at[2], 6))

\* the weekly sheet of the workbook "full", which has cells in three rows
\* of the layout, gave 46 rows: the first from grid row 4, the second from
\* the empty grid row 5, the last from grid row 73
C29_Witness ==
    /\ pipeline = "verified"
    /\ Extracted
    /\ TheFile.book = "full"
    /\ Len(TheWeeklyRows) = 46
    /\ TheWeeklyRows[1][4] = 40
    /\ TheWeeklyRows[2][4] = 0 /\ TheWeeklyRows[2][5] = 0 /\ TheWeeklyRows[2][7] = 0
    /\ TheWeeklyRows[46][3] = Chars("GRINDER")
    /\ TheWeeklyRows[46][7] = 300

\* the date formats a date cell with text is accepted in
AcceptedDateFormats ==
    {Chars("%Y-%m-%d"), Chars("%m-%d-%y"), Chars("%m-%d-%Y"), Chars("%m/%d/%Y")}

\* the date cell of the sheet is missing, blank, or holds what is no date
\* and parses under none of the accepted formats
Undated(data) ==
    \/ data.nrows < 1
    \/ data.ncols <= COL_DATE
    \/ LET cell == CellAt(data, 0, COL_DATE)
       IN  \/ cell.t = "nan"
           \/ /\ cell.t # "date"
              /\ \A fmt \in AcceptedDateFormats : ~strptime(CellToStr(cell), fmt).ok

\* the daily sheets of the workbook whose date cell gives no date
UndatedSheets ==
    {s \in DailySheets : Undated(SheetNamed(TheWorkbook, DAILY_SHEETS[s]))}

\* the rows <<sheet, machine, row index>> of the other daily sheets that
\* are to yield a record
RowsOfDatedSheets ==
    {at \in (DailySheets \ UndatedSheets) \X (DOMAIN MACHINE_DATA_RANGES) \X (0..80) :
        LET data == SheetNamed(TheWorkbook, DAILY_SHEETS[at[1]])
            range == MACHINE_DATA_RANGES[at[2]]
        IN  /\ data.nrows >= range.end_row
            /\ range.start_row <= at[3]
            /\ at[3] < range.end_row
            /\ Qualifies(DailyRowValues(data, at[3]))}

\* the warnings that a sheet was skipped for its date
DateWarnings ==
    {k \in DOMAIN log : /\ log[k].level = "warning"
                         /\ log[k].event = "Could not extract date, skipping"}

\* C21: in the daily pipeline a sheet whose date cell is missing, blank or
\* parses under none of the accepted formats is skipped with a warning
\* that names the file and the sheet, and gives no record and no note; the
\* file is not failed for it, and every other daily sheet of the file is
\* extracted: the records are those of the qualifying rows of the sheets
\* with a date, the notes those of their commented rows.
C21_UndatedSheetSkipped ==
    (/\ pipeline = "daily"
     /\ Extracted
     /\ TheWorkbook.opens = "ok"
     /\ \A s \in DailySheets : SheetNamed(TheWorkbook, DAILY_SHEETS[s]).parse = "ok") =>
        /\ outcomes[1].raised = "none"
        /\ \A s \in UndatedSheets :
              /\ RecordsOfSheet(s) = {}
              /\ Cardinality({k \in DateWarnings :
                                  /\ log[k].file = TheFile.name
                                  /\ log[k].sheet = DAILY_SHEETS[s]}) = 1
        /\ Cardinality(DateWarnings) = Cardinality(UndatedSheets)
        /\ \A s \in DailySheets \ UndatedSheets :
              Cardinality(RecordsOfSheet(s)) =
                  Cardinality({at \in RowsOfDatedSheets : at[1] = s})
        /\ Len(TheDailyRecords) = Cardinality(RowsOfDatedSheets)
        /\ Len(TheNotes) =
              Cardinality({at \in RowsOfDatedSheets :
                              ~BlankCell(CellAt(SheetNamed(TheWorkbook, DAILY_SHEETS[at[1]]),
                                                at[3], COL_COMMENT))})

\* the workbook "partial" was extracted: its Thu sheet of nine columns and
\* its Fri sheet dated "March 8" were skipped with a warning each and gave
\* no record, its Wed and Sat sheets gave theirs
C21_Witness ==
    /\ pipeline = "daily"
    /\ Extracted
    /\ TheFile.book = "partial"
    /\ outcomes[1].raised = "none"
    /\ UndatedSheets = {4, 5}
    /\ Cardinality(DateWarnings) = 2
    /\ RecordsOfSheet(4) = {} /\ RecordsOfSheet(5) = {}
    /\ RecordsOfSheet(3) # {} /\ RecordsOfSheet(6) # {}

\* the log holds the record that the aggregator skipped the file or failed on it
LoggedAsSkipped ==
    \E k \in DOMAIN log :
        /\ log[k].file = TheFile.name
        /\ log[k].level \in {"warning", "error"}
        /\ log[k].event \in {"Skipping", "Empty or corrupt file",
                              "Unexpected error processing"}

\* C22: a workbook that lacks a required sheet is fatal to its file: in
\* the weekly/verified pipeline a workbook without the sheet Weekly Report,
\* in the daily pipeline a workbook without the daily sheets Mon..Sat; the
\* extraction raises, the file gives no record and the aggregator logs
\* that it skipped the file.
C22_MissingSheetFatal ==
    (Extracted /\ TheWorkbook.opens = "ok") =>
        /\ (pipeline = "verified" /\ ~HasSheet(TheWorkbook, WeeklyReport)) =>
              /\ outcomes[1].raised # "none"
              /\ dataframes = <<>>
              /\ LoggedAsSkipped
        /\ (pipeline = "daily" /\ DailySheets = {}) =>
              /\ outcomes[1].raised # "none"
              /\ daily_dataframes = <<>>
              /\ notes_dataframes = <<>>
              /\ LoggedAsSkipped

\* what extract_daily_data_from_file had gathered from the file when it
\* returned or raised
Gathered == DailyExtracted(TheFile, config, platform)

\* C26: the records and notes of a file reach the aggregated dataset all or
\* not at all: when the extraction of the file raises, whatever records
\* and notes of earlier sheets it had gathered, the aggregator holds no
\* frame of the file and writes neither export; when it returns, the
\* aggregator holds every record and every note gathered.
C26_FileAtomic ==
    (pipeline = "daily" /\ Extracted) =>
        /\ outcomes[1].raised # "none" =>
              /\ daily_dataframes = <<>>
              /\ notes_dataframes = <<>>
              /\ ~aggregated_daily.written
              /\ ~aggregated_notes.written
        /\ outcomes[1].raised = "none" =>
              /\ TheDailyRecords = Gathered.daily
              /\ TheNotes = Gathered.notes
              /\ pc = "done" =>
                    /\ Len(aggregated_daily.rows) = Len(Gathered.daily)
                    /\ Len(aggregated_notes.rows) = Len(Gathered.notes)

\* the workbook "damaged" failed on its Tue sheet after the records and the
\* notes of its Mon sheet had been gathered, and the run ended without them
C26_Witness ==
    /\ pipeline = "daily"
    /\ pc = "done"
    /\ TheFile.book = "damaged"
    /\ outcomes[1].raised = "Exception"
    /\ Gathered.daily # <<>>
    /\ Gathered.notes # <<>>
    /\ daily_dataframes = <<>>
    /\ notes_dataframes = <<>>
    /\ ~aggregated_daily.written

\* C23: each workbook is opened, parsed and released before the next file
\* is opened: at no point of a run is more than one workbook open, and
\* when the run has ended, whether its files succeeded or failed, no
\* workbook is open.
C23_OneWorkbookOpen ==
    /\ Cardinality(opened) <= 1
    /\ pc = "done" => opened = {}

\* the machine names of the weekly table
WeeklyMachineNames ==
    {VERIFIED_MACHINE_DATA_RANGES[k].machine : k \in DOMAIN VERIFIED_MACHINE_DATA_RANGES}

\* C28: the daily and the weekly/verified pipeline use one layout table:
\* the same machine names with the same row intervals in the same order,
\* so the machine of every daily record is a machine of the weekly records.
C28_OneLayoutTable ==
    Extracted =>
        /\ Len(MACHINE_DATA_RANGES) = Len(VERIFIED_MACHINE_DATA_RANGES)
        /\ \A k \in DOMAIN MACHINE_DATA_RANGES :
              /\ MACHINE_DATA_RANGES[k].start_row = VERIFIED_MACHINE_DATA_RANGES[k].start_row
              /\ MACHINE_DATA_RANGES[k].end_row = VERIFIED_MACHINE_DATA_RANGES[k].end_row
              /\ MACHINE_DATA_RANGES[k].machine = VERIFIED_MACHINE_DATA_RANGES[k].machine
        /\ \A i \in DOMAIN TheDailyRecords :
              TheDailyRecords[i].Machine_Name \in WeeklyMachineNames
        /\ \A i \in DOMAIN TheWeeklyRows :
              \E k \in DOMAIN MACHINE_DATA_RANGES :
                  TheWeeklyRows[i][3] = MACHINE_DATA_RANGES[k].machine

\* C30: the Data_Quality_Score of every emitted daily record is one of 10,
\* 25, 35, 40, 50, 65, 75 and 100; it is never 0, a record with no machine
\* hours, no man hours and no output scoring 10; and a record in which
\* exactly one of machine hours and output is present scores at most 65.
C30_ScoreValues ==
    (pipeline = "daily" /\ Extracted) =>
        \A i \in DOMAIN TheDailyRecords :
            LET record == TheDailyRecords[i]
                score == record.Data_Quality_Score
            IN  /\ score \in {10, 25, 35, 40, 50, 65, 75, 100}
                /\ score # 0
                /\ (/\ ~record.Has_Machine_Hours
                     /\ ~record.Has_Man_Hours
                     /\ ~record.Has_Output) => score = 10
                /\ (record.Has_Machine_Hours # record.Has_Output) => score <= 65

\* the workbook "flags" gave a record with an operator and no number, which
\* scores 10, and a record with man hours and output and no machine hours,
\* which scores 65
C30_Witness ==
    /\ pipeline = "daily"
    /\ Extracted
    /\ TheFile.book = "flags"
    /\ \E i \in DOMAIN TheDailyRecords :
          /\ TheDailyRecords[i].Data_Quality_Score = 10
          /\ TheDailyRecords[i].Operator # <<>>
          /\ TheDailyRecords[i].Machine_Hours = 0
          /\ TheDailyRecords[i].Actual_Output = 0
    /\ \E i \in DOMAIN TheDailyRecords :
          /\ TheDailyRecords[i].Data_Quality_Score = 65
          /\ ~TheDailyRecords[i].Has_Machine_Hours
          /\ TheDailyRecords[i].Has_Output

---------------------------------------------------------------------------
(* Properties of the runs of the two older aggregators                     *)

\* the loop of the run has ended with no file extracted without an exception
NoFileSucceeded ==
    /\ pipeline \in {"individual", "weekly"}
    /\ pc \in {"export", "done"}
    /\ \A i \in DOMAIN outcomes : outcomes[i].raised # "none"

\* C24: in aggregate_individual_data.aggregate_folder and in
\* aggregate_weekly_data.aggregate_data, when zero files succeed (there is no
\* candidate file, or every file fails) no output file is written: neither
\* aggregated_master_data.xlsx nor master_file.csv.
C24_NoExportWithoutData ==
    NoFileSucceeded => ~aggregated_data.written /\ ~master_data.written

\* C25: in the records process_weekly_report emits for the totals rows, a
\* "Total Machine Hours", "Total Man Hours" or "Actual Output (Lbs)" cell
\* that is empty or not numeric is recorded as 0.0: no record holds a missing
\* value (NaN) in one of the three.
C25_TotalsNeverMissing ==
    pipeline = "weekly" =>
        \A i \in DOMAIN master_data.rows :
            /\ master_data.rows[i].Total_Machine_Hours.k = "num"
            /\ master_data.rows[i].Total_Man_Hours.k = "num"
            /\ master_data.rows[i].Total_Output_Weight.k = "num"

---------------------------------------------------------------------------
(* Properties of the cell runs                                             *)

\* the text contains one of the words, in any letter case
HasAnyWord(text, words) == \E w \in words : HasWord(text, Chars(w))

\* the category of a comment by the reference: none for no text, else the
\* first of downtime, material, quality with a keyword in the text, else
\* operational
ReferenceCategory(text) ==
    IF text = <<>> THEN <<>>
    ELSE IF HasAnyWord(text, {"down", "stopped", "broken", "repair", "fix", "belt",
                              "chiller", "filter"})
    THEN Chars("downtime")
    ELSE IF HasAnyWord(text, {"no material", "waiting for material", "material shortage",
                              "ran out"})
    THEN Chars("material")
    ELSE IF HasAnyWord(text, {"no weights", "missing", "not entered", "incomplete"})
    THEN Chars("quality")
    ELSE Chars("operational")

\* C15: _categorize_note gives the category of the reference: none for no
\* text, else the first of downtime, material, quality one of whose keywords
\* is in the text in any letter case, else operational; a comment with a
\* downtime and a material keyword is downtime, and a comment that is not
\* empty has one of the four categories.
C15_CategorizeNote ==
    (pc = "normalized" /\ parsed.by = "_categorize_note") =>
        LET text == StrStrip(CellToStr(parsed.cell))
            note == IF parsed.cell.t = "nan" THEN <<>> ELSE text
        IN  /\ parsed.value = ReferenceCategory(note)
            /\ note # <<>> =>
                  parsed.value \in {Chars("downtime"), Chars("material"),
                                    Chars("quality"), Chars("operational")}
            /\ (/\ HasAnyWord(note, {"down", "stopped", "broken", "repair", "fix",
                                      "belt", "chiller", "filter"})
                /\ HasAnyWord(note, {"no material", "waiting for material",
                                      "material shortage", "ran out"}))
                  => parsed.value = Chars("downtime")

\* the comment with "broken" and "waiting for material" was given downtime
C15_Witness ==
    /\ pc = "normalized"
    /\ parsed.by = "_categorize_note"
    /\ parsed.cell = Txt("Belt broken - waiting for material")
    /\ parsed.value = Chars("downtime")

\* The largest number a numeral of the cells denotes.
MaxNumeral == 1000

\* the decimal digits of a natural number, most significant first
RECURSIVE Decimal(_)
Decimal(n) ==
    IF n < 10 THEN <<DigitChars[n + 1]>> ELSE Decimal(n \div 10) \o <<DigitChars[(n % 10) + 1]>>

\* the numbers the text is a numeral of: blanks, an optional minus sign, up
\* to two zeros and the decimal digits of the number, blanks
NumbersWritten(text) ==
    {n \in (0 - MaxNumeral)..MaxNumeral :
        \E zeros \in {<<>>, <<"0">>, <<"0", "0">>} :
            \E left \in 0..Len(text) :
                LET numeral == (IF n < 0 THEN <<"-">> ELSE <<>>) \o zeros
                                   \o Decimal(IF n < 0 THEN 0 - n ELSE n)
                IN  /\ left + Len(numeral) <= Len(text)
                    /\ SubSeq(text, left + 1, left + Len(numeral)) = numeral
                    /\ \A i \in DOMAIN text :
                          (i <= left \/ i > left + Len(numeral)) => text[i] = " "}

\* C17: _safe_float gives, without raising, the default for a cell that is
\* missing, blank or text that is no numeral (0.0 when no default is given),
\* and the number itself for a number and for text that is a numeral.
C17_SafeFloat ==
    (pc = "normalized" /\ parsed.by = "_safe_float") =>
        /\ parsed.value \in Int
        /\ parsed.cell.t = "num" => parsed.value = parsed.cell.n
        /\ parsed.cell.t = "str" =>
              \E written \in {NumbersWritten(parsed.cell.s)} :
                  IF written # {} THEN parsed.value \in written
                  ELSE parsed.value = parsed.default
        /\ parsed.cell.t \in {"nan", "date"} => parsed.value = parsed.default
        /\ _safe_float(parsed.cell) = _safe_float_default(parsed.cell, 0)

\* with the default 7: the text n/a gave 7
C17_Witness ==
    /\ pc = "normalized"
    /\ parsed.by = "_safe_float"
    /\ parsed.cell = Txt("n/a")
    /\ parsed.default = 7
    /\ parsed.value = 7

=============================================================================
